---- MODULE Spec2Model ----
(***************************************************************************)
(* A model of the HungryJack meal-planning backend: the keyword helpers    *)
(* (ingredient categories, nutrition estimate, local shopping list), the   *)
(* persistence layer over the REST table store, and plan generation from   *)
(* a model reply.  Text is modelled as TLA+ strings, character by          *)
(* character, so that parsing and serialisation are computed, not assumed. *)
(***************************************************************************)
EXTENDS Integers, Sequences, FiniteSets, TLC

VARIABLES
    lastCall,         \* the call in progress and its outcome: [op, arg, ret]
    OPENAI_API_KEY,   \* the API key of the environment, "" when there is none
    use_mock,         \* OpenAIService.use_mock
    uuids,            \* the number of uuid4 values drawn so far
    db,               \* the rows of each table of the store, in insertion order
    savedPlans,       \* the meal plans save_meal_plan has returned to its callers
    use_usda_api      \* NutritionService.use_usda_api

vars == <<lastCall, OPENAI_API_KEY, use_mock, uuids, db, savedPlans, use_usda_api>>

-----------------------------------------------------------------------------
(* Python str operations, on TLA+ strings.                                 *)

CharAt(s, i) == SubSeq(s, i, i)

UpperAlpha == "ABCDEFGHIJKLMNOPQRSTUVWXYZ"
LowerAlpha == "abcdefghijklmnopqrstuvwxyz"

LowerChar(c) ==
    IF \E i \in 1..Len(UpperAlpha) : CharAt(UpperAlpha, i) = c
    THEN CharAt(LowerAlpha, CHOOSE i \in 1..Len(UpperAlpha) : CharAt(UpperAlpha, i) = c)
    ELSE c

UpperChar(c) ==
    IF \E i \in 1..Len(LowerAlpha) : CharAt(LowerAlpha, i) = c
    THEN CharAt(UpperAlpha, CHOOSE i \in 1..Len(LowerAlpha) : CharAt(LowerAlpha, i) = c)
    ELSE c

\* s.lower(), a half at a time
RECURSIVE str_lower(_)
str_lower(s) ==
    IF Len(s) <= 1 THEN LowerChar(s)
    ELSE str_lower(SubSeq(s, 1, Len(s) \div 2)) \o str_lower(SubSeq(s, Len(s) \div 2 + 1, Len(s)))

str_capitalize(s) ==
    IF s = "" THEN "" ELSE UpperChar(Head(s)) \o str_lower(Tail(s))

IsSpace(c) == c \in {" ", "\t", "\n", "\r"}

IsDigit(c) == c \in {"0", "1", "2", "3", "4", "5", "6", "7", "8", "9"}

RECURSIVE str_lstrip(_)
str_lstrip(s) ==
    IF s # "" /\ IsSpace(Head(s)) THEN str_lstrip(Tail(s)) ELSE s

RECURSIVE str_rstrip(_)
str_rstrip(s) ==
    IF s # "" /\ IsSpace(CharAt(s, Len(s)))
    THEN str_rstrip(SubSeq(s, 1, Len(s) - 1))
    ELSE s

str_strip(s) == str_rstrip(str_lstrip(s))

\* s.startswith(k, i - 1): k occurs in s at (1-based) position i
OccursAt(s, k, i) ==
    /\ i >= 1
    /\ i + Len(k) - 1 <= Len(s)
    /\ SubSeq(s, i, i + Len(k) - 1) = k

\* k in s
str_contains(s, k) == \E i \in 1..(Len(s) - Len(k) + 1) : OccursAt(s, k, i)

\* s.find(k) and s.rfind(k), 0-based as in Python, -1 when k does not occur
str_find(s, k) ==
    IF str_contains(s, k)
    THEN (CHOOSE i \in 1..Len(s) :
            /\ OccursAt(s, k, i)
            /\ \A j \in 1..(i - 1) : ~OccursAt(s, k, j)) - 1
    ELSE -1

str_rfind(s, k) ==
    IF str_contains(s, k)
    THEN (CHOOSE i \in 1..Len(s) :
            /\ OccursAt(s, k, i)
            /\ \A j \in (i + 1)..Len(s) : ~OccursAt(s, k, j)) - 1
    ELSE -1

\* s[a:b] for 0 <= a, 0 <= b (Python slice, 0-based, b exclusive, clipped)
str_slice(s, a, b) ==
    LET Clamp(i) == IF i < 0 THEN (IF i + Len(s) < 0 THEN 0 ELSE i + Len(s))
                    ELSE IF i > Len(s) THEN Len(s) ELSE i
    IN  IF Clamp(a) >= Clamp(b) THEN "" ELSE SubSeq(s, Clamp(a) + 1, Clamp(b))

\* s.split(",")[0]
str_split_comma_first(s) ==
    IF str_find(s, ",") = -1 THEN s ELSE str_slice(s, 0, str_find(s, ","))

-----------------------------------------------------------------------------
(* MealPlanService._categorize_ingredient                                  *)

\* the categories dict, in its insertion order
categories == <<
    [name |-> "Produce", keywords |->
        <<"vegetable", "vegetables", "fruit", "fruits", "apple", "banana", "orange", "lettuce",
          "spinach", "kale", "carrot", "tomato", "potato", "onion", "garlic", "avocado",
          "broccoli", "cucumber", "pepper", "zucchini", "squash", "mushroom">>],
    [name |-> "Meat & Seafood", keywords |->
        <<"meat", "beef", "chicken", "pork", "turkey", "lamb", "fish", "salmon",
          "tuna", "shrimp", "seafood", "bacon", "sausage", "ground">>],
    [name |-> "Dairy & Eggs", keywords |->
        <<"milk", "cheese", "yogurt", "butter", "cream", "egg", "dairy", "yoghurt">>],
    [name |-> "Bakery", keywords |->
        <<"bread", "roll", "bun", "bagel", "tortilla", "pita", "pastry", "cake", "cookie">>],
    [name |-> "Grains & Pasta", keywords |->
        <<"rice", "pasta", "noodle", "grain", "quinoa", "couscous", "barley",
          "oat", "cereal", "flour", "cornmeal">>],
    [name |-> "Canned Goods", keywords |->
        <<"can", "canned", "soup", "beans", "tomato sauce", "broth", "stock">>],
    [name |-> "Condiments & Sauces", keywords |->
        <<"sauce", "ketchup", "mustard", "mayonnaise", "dressing",
          "vinegar", "oil", "condiment", "syrup", "honey", "jam", "jelly">>],
    [name |-> "Spices & Herbs", keywords |->
        <<"spice", "herb", "seasoning", "salt", "pepper", "basil", "oregano",
          "thyme", "rosemary", "cinnamon", "cumin", "paprika", "curry">>],
    [name |-> "Nuts & Seeds", keywords |->
        <<"nut", "seed", "almond", "walnut", "peanut", "cashew", "pecan",
          "pistachio", "sesame", "flax", "chia", "sunflower">>],
    [name |-> "Beverages", keywords |->
        <<"water", "juice", "soda", "coffee", "tea", "wine", "beer", "beverage", "drink">>],
    [name |-> "Frozen Foods", keywords |->
        <<"frozen", "ice cream", "frozen vegetables", "frozen fruit">>],
    [name |-> "Snacks", keywords |->
        <<"chip", "cracker", "pretzel", "popcorn", "snack", "candy", "chocolate">>] >>

\* any(keyword in text for keyword in keywords)
AnyKeywordIn(keywords, text) ==
    \E k \in 1..Len(keywords) : str_contains(text, keywords[k])

\* the loop over categories.items(): the position of the first category, from
\* position c on, one of whose keywords occurs in the name; 0 when the loop ends
\* without a return
RECURSIVE FirstCategory(_, _)
FirstCategory(ingredient_lower, c) ==
    IF c > Len(categories) THEN 0
    ELSE IF AnyKeywordIn(categories[c].keywords, ingredient_lower) THEN c
         ELSE FirstCategory(ingredient_lower, c + 1)

\* mutant: the loop goes on after a match, and the last category that matches wins
Mut_categorize_last_match(ingredient_name) ==
    LET hits == {c \in 1..Len(categories) :
                    AnyKeywordIn(categories[c].keywords, str_lower(ingredient_name))}
    IN  IF hits = {} THEN "Other"
        ELSE categories[CHOOSE c \in hits : \A d \in hits : d <= c].name

\* mutant: the function falls off its end without the final return "Other"
Mut_categorize_no_default(ingredient_name) ==
    LET c == FirstCategory(str_lower(ingredient_name), 1)
    IN  IF c = 0 THEN "" ELSE categories[c].name

_categorize_ingredient(ingredient_name) ==
    LET c == FirstCategory(str_lower(ingredient_name), 1)
    IN  IF c = 0 THEN "Other" ELSE categories[c].name

-----------------------------------------------------------------------------
(* NutritionService._get_estimated_nutrition_data                          *)

NutritionData(calories, protein_grams, carbs_grams, fat_grams) ==
    [calories |-> calories, protein_grams |-> protein_grams,
     carbs_grams |-> carbs_grams, fat_grams |-> fat_grams,
     fiber_grams |-> [t |-> "NoneType"], sugar_grams |-> [t |-> "NoneType"],
     sodium_mg |-> [t |-> "NoneType"], cholesterol_mg |-> [t |-> "NoneType"],
     detailed_nutrients |-> [t |-> "NoneType"]]

\* the keyword lists of the branches, in the order the branches are tested
protein_words == <<"chicken", "beef", "fish", "meat", "turkey", "pork">>
vegetable_words == <<"salad", "vegetable", "broccoli", "spinach", "kale">>
carb_words == <<"rice", "pasta", "bread", "potato", "grain">>
fruit_words == <<"fruit", "apple", "banana", "berry", "orange">>
dairy_words == <<"yogurt", "milk", "cheese", "dairy">>
nut_words == <<"nut", "seed", "almond", "walnut", "peanut">>
fat_words == <<"oil", "butter", "fat">>

\* mutant: the vegetable branch is tested before the protein branch
Mut_estimate_vegetable_first(food_name) ==
    LET food_name_lower == str_lower(food_name)
    IN  IF AnyKeywordIn(vegetable_words, food_name_lower) THEN NutritionData(50, 2, 10, 0)
        ELSE IF AnyKeywordIn(protein_words, food_name_lower) THEN NutritionData(250, 25, 0, 15)
        ELSE IF AnyKeywordIn(carb_words, food_name_lower) THEN NutritionData(200, 5, 40, 1)
        ELSE IF AnyKeywordIn(fruit_words, food_name_lower) THEN NutritionData(100, 1, 25, 0)
        ELSE IF AnyKeywordIn(dairy_words, food_name_lower) THEN NutritionData(150, 10, 12, 8)
        ELSE IF AnyKeywordIn(nut_words, food_name_lower) THEN NutritionData(180, 6, 6, 16)
        ELSE IF AnyKeywordIn(fat_words, food_name_lower) THEN NutritionData(120, 0, 0, 14)
        ELSE NutritionData(200, 10, 20, 10)

_get_estimated_nutrition_data(food_name) ==
    LET food_name_lower == str_lower(food_name)
    IN  IF AnyKeywordIn(protein_words, food_name_lower) THEN NutritionData(250, 25, 0, 15)
        ELSE IF AnyKeywordIn(vegetable_words, food_name_lower) THEN NutritionData(50, 2, 10, 0)
        ELSE IF AnyKeywordIn(carb_words, food_name_lower) THEN NutritionData(200, 5, 40, 1)
        ELSE IF AnyKeywordIn(fruit_words, food_name_lower) THEN NutritionData(100, 1, 25, 0)
        ELSE IF AnyKeywordIn(dairy_words, food_name_lower) THEN NutritionData(150, 10, 12, 8)
        ELSE IF AnyKeywordIn(nut_words, food_name_lower) THEN NutritionData(180, 6, 6, 16)
        ELSE IF AnyKeywordIn(fat_words, food_name_lower) THEN NutritionData(120, 0, 0, 14)
        ELSE NutritionData(200, 10, 20, 10)

-----------------------------------------------------------------------------
(* MealPlanService._generate_shopping_list                                 *)

\* the unit alternation of the quantity pattern, in its order
QuantityUnits ==
    <<"cup", "tbsp", "tsp", "oz", "g", "kg", "ml", "l", "pound", "lb", "piece", "slice", "clove">>

\* the character class [\d/\.\s]
IsQuantityChar(c) == IsDigit(c) \/ c \in {"/", "."} \/ IsSpace(c)

\* the length of the run of quantity characters of s that starts at position i
RECURSIVE QuantityRun(_, _)
QuantityRun(s, i) ==
    IF i <= Len(s) /\ IsQuantityChar(CharAt(s, i)) THEN 1 + QuantityRun(s, i + 1) ELSE 0

\* the length of the run of whitespace of s that starts at position i
RECURSIVE SpaceRun(_, _)
SpaceRun(s, i) ==
    IF i <= Len(s) /\ IsSpace(CharAt(s, i)) THEN 1 + SpaceRun(s, i + 1) ELSE 0

\* re.match of  ^([\d/\.\s]+\s*(?:cup|...|clove)s?)\s+of\s+(.+)$  (with_of) or of
\* ^([\d/\.\s]+\s*(?:cup|...|clove)s?)\s+(.+)$  on parts.  Every unit starts with
\* a letter, so the unit starts right after the whole run of quantity characters.
\* Candidate c tries unit (c + 1) \div 2, first with the optional "s" (c odd) and
\* then without, which is the order the backtracking matcher tries them in.
QuantityMatch(parts, with_of) ==
    LET m == QuantityRun(parts, 1)
        Unit(c) == QuantityUnits[(c + 1) \div 2]
        Plural(c) == c % 2 = 1
        UnitEnd(c) == m + Len(Unit(c)) + (IF Plural(c) THEN 1 ELSE 0)
        AfterOf(c) ==
            LET a == SpaceRun(parts, UnitEnd(c) + 1)
            IN  IF with_of THEN UnitEnd(c) + a + Len("of") ELSE UnitEnd(c)
        Group2Start(c) == AfterOf(c) + SpaceRun(parts, AfterOf(c) + 1) + 1
        Succeeds(c) ==
            /\ m >= 1
            /\ OccursAt(parts, Unit(c), m + 1)
            /\ Plural(c) => CharAt(parts, m + Len(Unit(c)) + 1) = "s"
            /\ SpaceRun(parts, UnitEnd(c) + 1) >= 1
            /\ with_of => /\ OccursAt(parts, "of", UnitEnd(c) + SpaceRun(parts, UnitEnd(c) + 1) + 1)
                          /\ SpaceRun(parts, AfterOf(c) + 1) >= 1
            /\ Group2Start(c) <= Len(parts)
            /\ ~str_contains(SubSeq(parts, Group2Start(c), Len(parts)), "\n")
        Candidates == 1..(2 * Len(QuantityUnits))
    IN  IF \E c \in Candidates : Succeeds(c)
        THEN LET c == CHOOSE c \in Candidates :
                        Succeeds(c) /\ \A b \in 1..(c - 1) : ~Succeeds(b)
             IN  [matched |-> TRUE,
                  group1 |-> SubSeq(parts, 1, UnitEnd(c)),
                  group2 |-> SubSeq(parts, Group2Start(c), Len(parts))]
        ELSE [matched |-> FALSE, group1 |-> "", group2 |-> ""]

\* lines 330-343: the quantity and the name of one ingredient string
ParseIngredient(ingredient) ==
    LET Parsed(parts) ==
            LET FirstMatch(with_of) ==
                    IF with_of.matched THEN with_of ELSE QuantityMatch(parts, FALSE)
                Split(quantity_match) ==
                    IF quantity_match.matched
                    THEN [quantity |-> str_strip(quantity_match.group1),
                          name |-> str_strip(quantity_match.group2)]
                    ELSE [quantity |-> "", name |-> parts]
            IN  Split(FirstMatch(QuantityMatch(parts, TRUE)))
    IN  Parsed(str_lower(str_strip(str_split_comma_first(ingredient))))

\* meal.get("ingredients", [])
MealIngredients(meal) ==
    IF "ingredients" \in DOMAIN meal THEN meal.ingredients ELSE <<>>

\* lines 321-323: all_ingredients
RECURSIVE AllIngredients(_)
AllIngredients(meals) ==
    IF meals = <<>> THEN <<>>
    ELSE MealIngredients(Head(meals)) \o AllIngredients(Tail(meals))

\* item_key in shopping_list, the dict kept as its entries in insertion order
HasKey(shopping_list, item_key) ==
    \E e \in 1..Len(shopping_list) : shopping_list[e].key = item_key

\* the item a new key gets; uuid4() is a fresh value, here the number of the
\* entry, and the two timestamps are left out
NewItem(shopping_list, parsed) ==
    [key |-> str_lower(parsed.name),
     item |-> [id |-> Len(shopping_list) + 1,
               ingredient_name |-> str_capitalize(parsed.name),
               quantity |-> parsed.quantity,
               category |-> _categorize_ingredient(parsed.name),
               is_purchased |-> FALSE]]

\* mutant: a later occurrence of a key replaces the item stored for it
Mut_step_last_wins(shopping_list, ingredient) ==
    LET parsed == ParseIngredient(ingredient)
        item_key == str_lower(parsed.name)
    IN  IF HasKey(shopping_list, item_key)
        THEN [e \in 1..Len(shopping_list) |->
                 IF shopping_list[e].key = item_key
                 THEN [NewItem(shopping_list, parsed) EXCEPT !.item.id = shopping_list[e].item.id]
                 ELSE shopping_list[e]]
        ELSE Append(shopping_list, NewItem(shopping_list, parsed))

\* lines 328-364: one pass of the loop over all_ingredients
ShoppingListStep(shopping_list, ingredient) ==
    LET parsed == ParseIngredient(ingredient)
        item_key == str_lower(parsed.name)
    IN  IF HasKey(shopping_list, item_key)
        THEN shopping_list
        ELSE Append(shopping_list, NewItem(shopping_list, parsed))

RECURSIVE ShoppingListLoop(_, _)
ShoppingListLoop(shopping_list, all_ingredients) ==
    IF all_ingredients = <<>> THEN shopping_list
    ELSE ShoppingListLoop(ShoppingListStep(shopping_list, Head(all_ingredients)),
                          Tail(all_ingredients))

\* list(shopping_list.values())
_generate_shopping_list(meals) ==
    LET shopping_list == ShoppingListLoop(<<>>, AllIngredients(meals))
    IN  [e \in 1..Len(shopping_list) |-> shopping_list[e].item]

-----------------------------------------------------------------------------
(* json.loads and json.dumps, on the text.  A decoded value is a record     *)
(* tagged with its Python type: None, bool, int, str, list, or dict (kept   *)
(* as its items in insertion order).                                       *)

JNull == [t |-> "NoneType"]
JBool(b) == [t |-> "bool", v |-> b]
JNum(n) == [t |-> "int", v |-> n]
JStr(s) == [t |-> "str", v |-> s]
JArr(a) == [t |-> "list", v |-> a]
JObj(items) == [t |-> "dict", v |-> items]

\* pieces[lo] \o ... \o pieces[hi], a half at a time
RECURSIVE Concat(_, _, _)
Concat(pieces, lo, hi) ==
    IF lo > hi THEN ""
    ELSE IF lo = hi THEN pieces[lo]
    ELSE Concat(pieces, lo, (lo + hi) \div 2) \o Concat(pieces, (lo + hi) \div 2 + 1, hi)

\* the running sums base + delta[lo], base + delta[lo] + delta[lo + 1], ...
RECURSIVE RunningSums(_, _, _, _)
RunningSums(delta, lo, hi, base) ==
    IF lo > hi THEN <<>>
    ELSE IF lo = hi THEN <<base + delta[lo]>>
    ELSE LET left == RunningSums(delta, lo, (lo + hi) \div 2, base)
         IN  left \o RunningSums(delta, (lo + hi) \div 2 + 1, hi, left[Len(left)])

\* the members of a set of numbers in increasing order
SortedSeq(S) ==
    [k \in 1..Cardinality(S) |-> CHOOSE j \in S : Cardinality({x \in S : x < j}) = k - 1] \o <<>>

\* the number of backslashes of s[lo..] that end right before position i
RECURSIVE BackslashRun(_, _, _)
BackslashRun(s, lo, i) ==
    IF i > lo /\ CharAt(s, i - 1) = "\\" THEN 1 + BackslashRun(s, lo, i - 1) ELSE 0

\* the scanner's view of a text: for each position whether it lies in a string
\* literal (its quotes included) and the bracket depth after it
ScanText(s) ==
    LET n == Len(s)
        quote == [i \in 1..n |->
                     IF CharAt(s, i) = "\"" /\ BackslashRun(s, 1, i) % 2 = 0 THEN 1 ELSE 0] \o <<>>
        quotes == RunningSums(quote, 1, n, 0)
        inStr == [i \in 1..n |-> quote[i] = 1 \/ quotes[i] % 2 = 1] \o <<>>
        delta == [i \in 1..n |->
                     IF inStr[i] THEN 0
                     ELSE IF CharAt(s, i) \in {"[", "{"} THEN 1
                     ELSE IF CharAt(s, i) \in {"]", "}"} THEN -1
                     ELSE 0] \o <<>>
    IN  [s |-> s, quote |-> quote, inStr |-> inStr, depth |-> RunningSums(delta, 1, n, 0)]

DepthBefore(ctx, i) == IF i = 1 THEN 0 ELSE ctx.depth[i - 1]

\* the escape sequences of a string literal
Unescape(c) ==
    CASE c = "n" -> "\n"
      [] c = "t" -> "\t"
      [] c = "r" -> "\r"
      [] c = "f" -> "\f"
      [] OTHER -> c

\* the string the literal body s[lo..hi] (the text between the quotes) denotes
DecodeString(s, lo, hi) ==
    LET IsEscape(i) == CharAt(s, i) = "\\" /\ BackslashRun(s, lo, i) % 2 = 0
        valid == \A i \in lo..hi :
                    /\ CharAt(s, i) \notin {"\n", "\t", "\r", "\f"}
                    /\ IsEscape(i) => (i < hi /\ CharAt(s, i + 1) \in {"\"", "\\", "/", "f", "n", "r", "t"})
        pieces == [k \in 1..(hi - lo + 1) |->
                      LET i == lo + k - 1
                      IN  IF IsEscape(i) THEN ""
                          ELSE IF i > lo /\ IsEscape(i - 1) THEN Unescape(CharAt(s, i))
                          ELSE CharAt(s, i)] \o <<>>
    IN  [ok |-> valid, val |-> IF valid /\ lo <= hi THEN Concat(pieces, 1, hi - lo + 1) ELSE ""]

\* the length of the run of whitespace of s that ends at position i
RECURSIVE SpaceRunBack(_, _)
SpaceRunBack(s, i) ==
    IF i >= 1 /\ IsSpace(CharAt(s, i)) THEN 1 + SpaceRunBack(s, i - 1) ELSE 0

\* lo..hi without the white space at its two ends, as <<lo, hi>>; lo > hi when
\* nothing is left
Trim(s, lo, hi) ==
    LET first == lo + SpaceRun(s, lo)
    IN  IF first > hi THEN <<hi + 1, hi>> ELSE <<first, hi - SpaceRunBack(s, hi)>>

\* s[lo..hi] is a string literal: two quotes with no closing quote in between
IsStringLiteral(ctx, lo, hi) ==
    /\ lo < hi
    /\ ctx.quote[lo] = 1
    /\ ctx.quote[hi] = 1
    /\ \A j \in (lo + 1)..(hi - 1) : ctx.quote[j] = 0

\* s[lo..hi] is an integer literal: -?(0|[1-9][0-9]*)
IsIntLiteral(s, lo, hi) ==
    LET first == IF CharAt(s, lo) = "-" THEN lo + 1 ELSE lo
    IN  /\ first <= hi
        /\ \A j \in first..hi : IsDigit(CharAt(s, j))
        /\ CharAt(s, first) = "0" => first = hi

DigitValue(c) == CHOOSE v \in 0..9 : CharAt("0123456789", v + 1) = c

\* the number the digits s[lo..hi] denote
RECURSIVE DigitsValue(_, _, _)
DigitsValue(s, lo, hi) ==
    IF lo > hi THEN 0 ELSE 10 * DigitsValue(s, lo, hi - 1) + DigitValue(CharAt(s, hi))

IntValue(s, lo, hi) ==
    IF CharAt(s, lo) = "-" THEN 0 - DigitsValue(s, lo + 1, hi) ELSE DigitsValue(s, lo, hi)

\* a dict from the members of an object in text order: a repeated key keeps its
\* first place and takes its last value
DictOf(members) ==
    LET firsts == SortedSeq({i \in 1..Len(members) :
                                \A j \in 1..(i - 1) : members[j].k # members[i].k})
        Last(k) == CHOOSE i \in 1..Len(members) :
                       members[i].k = k /\ \A j \in (i + 1)..Len(members) : members[j].k # k
    IN  [e \in 1..Len(firsts) |->
            [k |-> members[firsts[e]].k, v |-> members[Last(members[firsts[e]].k)].v]]

JFail == [ok |-> FALSE, val |-> JNull]
JOk(val) == [ok |-> TRUE, val |-> val]

\* the value the text s[lo0..hi0] denotes; ok is FALSE where the decoder raises
\* JSONDecodeError
RECURSIVE ParseValue(_, _, _)

\* the value the text s[lo..hi] denotes, lo..hi having no white space at its ends
RECURSIVE ParseTrimmed(_, _, _)
ParseTrimmed(ctx, lo, hi) ==
    LET s == ctx.s
        c == CharAt(s, lo)
        d == DepthBefore(ctx, lo) + 1
        closes ==
            /\ lo < hi
            /\ CharAt(s, hi) = (IF c = "[" THEN "]" ELSE "}")
            /\ ctx.depth[hi] = d - 1
            /\ \A j \in lo..(hi - 1) : ctx.depth[j] >= d
        blank == Trim(s, lo + 1, hi - 1)[1] > hi - 1
        commas == SortedSeq({j \in (lo + 1)..(hi - 1) :
                                CharAt(s, j) = "," /\ ~ctx.inStr[j] /\ ctx.depth[j] = d})
        n == Len(commas) + 1
        SegLo(k) == IF k = 1 THEN lo + 1 ELSE commas[k - 1] + 1
        SegHi(k) == IF k = n THEN hi - 1 ELSE commas[k] - 1
        NoMember == [ok |-> FALSE, k |-> "", v |-> JNull]
        Pair(name, value) ==
            IF name.ok /\ value.ok THEN [ok |-> TRUE, k |-> name.val, v |-> value.val]
            ELSE NoMember
        KeyValue(key, from, to) ==
            IF IsStringLiteral(ctx, key[1], key[2])
            THEN Pair(DecodeString(s, key[1] + 1, key[2] - 1), ParseValue(ctx, from, to))
            ELSE NoMember
        MemberIn(from, to) ==
            LET colons == {j \in from..to :
                              CharAt(s, j) = ":" /\ ~ctx.inStr[j] /\ ctx.depth[j] = d}
                SplitAt(colon) == KeyValue(Trim(s, from, colon - 1), colon + 1, to)
            IN  IF colons = {} THEN NoMember
                ELSE SplitAt(CHOOSE j \in colons : \A o \in colons : j <= o)
        Member(k) == MemberIn(SegLo(k), SegHi(k))
    IN  IF lo > hi THEN JFail
        ELSE IF c = "[" THEN
            IF ~closes THEN JFail
            ELSE IF blank THEN JOk(JArr(<<>>))
            ELSE LET elems == [k \in 1..n |-> ParseValue(ctx, SegLo(k), SegHi(k))] \o <<>>
                 IN  IF \A k \in 1..n : elems[k].ok
                     THEN JOk(JArr([k \in 1..n |-> elems[k].val]))
                     ELSE JFail
        ELSE IF c = "{" THEN
            IF ~closes THEN JFail
            ELSE IF blank THEN JOk(JObj(<<>>))
            ELSE LET members == [k \in 1..n |-> Member(k)] \o <<>>
                 IN  IF \A k \in 1..n : members[k].ok
                     THEN JOk(JObj(DictOf(members)))
                     ELSE JFail
        ELSE IF c = "\"" THEN
            LET body == DecodeString(s, lo + 1, hi - 1)
            IN  IF IsStringLiteral(ctx, lo, hi) /\ body.ok THEN JOk(JStr(body.val)) ELSE JFail
        ELSE IF SubSeq(s, lo, hi) = "true" THEN JOk(JBool(TRUE))
        ELSE IF SubSeq(s, lo, hi) = "false" THEN JOk(JBool(FALSE))
        ELSE IF SubSeq(s, lo, hi) = "null" THEN JOk(JNull)
        ELSE IF IsIntLiteral(s, lo, hi) THEN JOk(JNum(IntValue(s, lo, hi)))
        ELSE JFail

ParseValue(ctx, lo0, hi0) ==
    LET Trimmed(t) == ParseTrimmed(ctx, t[1], t[2])
    IN  Trimmed(Trim(ctx.s, lo0, hi0))

\* json.loads(text)
json_loads(text) == ParseValue(ScanText(text), 1, Len(text))

-----------------------------------------------------------------------------
(* Dates: datetime.strptime / strftime with "%Y-%m-%d" and timedelta(days). *)
(* A date is <<year, month, day>>.                                          *)

IsLeap(y) == (y % 4 = 0 /\ y % 100 # 0) \/ y % 400 = 0

DaysInMonth(y, m) ==
    IF m = 2 THEN (IF IsLeap(y) THEN 29 ELSE 28)
    ELSE IF m \in {4, 6, 9, 11} THEN 30
    ELSE 31

NextDay(date) ==
    IF date[3] < DaysInMonth(date[1], date[2]) THEN <<date[1], date[2], date[3] + 1>>
    ELSE IF date[2] < 12 THEN <<date[1], date[2] + 1, 1>>
    ELSE <<date[1] + 1, 1, 1>>

PrevDay(date) ==
    IF date[3] > 1 THEN <<date[1], date[2], date[3] - 1>>
    ELSE IF date[2] > 1 THEN <<date[1], date[2] - 1, DaysInMonth(date[1], date[2] - 1)>>
    ELSE <<date[1] - 1, 12, 31>>

\* date + timedelta(days=n)
RECURSIVE AddDays(_, _)
AddDays(date, n) ==
    IF n = 0 THEN date
    ELSE IF n > 0 THEN AddDays(NextDay(date), n - 1)
    ELSE AddDays(PrevDay(date), n + 1)

\* the decimal digits of n, at least width of them
ZeroPad(n, width) ==
    LET digits == ToString(n)
    IN  IF Len(digits) >= width THEN digits
        ELSE SubSeq("0000", 1, width - Len(digits)) \o digits

\* date.strftime("%Y-%m-%d")
strftime(date) ==
    ZeroPad(date[1], 4) \o "-" \o ZeroPad(date[2], 2) \o "-" \o ZeroPad(date[3], 2)

\* datetime.isoformat() of a datetime of that date; now is a date, and the time
\* of day is midnight
isoformat(date) == strftime(date) \o "T00:00:00"

AllDigits(s) == s # "" /\ \A i \in 1..Len(s) : IsDigit(CharAt(s, i))

\* datetime.strptime(text, "%Y-%m-%d"): a four-digit year, a month and a day of
\* one or two digits, and a date that exists; ok is FALSE where it raises ValueError
strptime(text) ==
    LET NoDate == [ok |-> FALSE, date |-> <<>>]
        Date(y, m, d) ==
            IF y >= 1 /\ m \in 1..12 /\ d \in 1..DaysInMonth(y, m)
            THEN [ok |-> TRUE, date |-> <<y, m, d>>]
            ELSE NoDate
        Fields(year, month, day) ==
            IF /\ AllDigits(year) /\ Len(year) = 4
               /\ AllDigits(month) /\ Len(month) <= 2
               /\ AllDigits(day) /\ Len(day) <= 2
            THEN Date(DigitsValue(year, 1, Len(year)),
                      DigitsValue(month, 1, Len(month)),
                      DigitsValue(day, 1, Len(day)))
            ELSE NoDate
        SplitRest(dash1, rest, dash2) ==
            IF dash1 = -1 \/ dash2 = -1 THEN NoDate
            ELSE Fields(str_slice(text, 0, dash1), str_slice(rest, 0, dash2),
                        str_slice(rest, dash2 + 1, Len(rest)))
        SplitText(dash1, rest) == SplitRest(dash1, rest, str_find(rest, "-"))
        AfterDash(dash1) == SplitText(dash1, str_slice(text, dash1 + 1, Len(text)))
    IN  AfterDash(str_find(text, "-"))

-----------------------------------------------------------------------------
(* Python values met in replies and plans: dict.get, membership, outcomes.  *)

HasItem(dict, key) == \E e \in 1..Len(dict.v) : dict.v[e].k = key

\* dict[key]
Item(dict, key) == dict.v[CHOOSE e \in 1..Len(dict.v) : dict.v[e].k = key].v

\* dict.get(key, default)
Get(dict, key, default) == IF HasItem(dict, key) THEN Item(dict, key) ELSE default

\* d1 with the item key: value set, as d[key] = value does
SetItem(dict, key, value) ==
    IF HasItem(dict, key)
    THEN JObj([e \in 1..Len(dict.v) |->
                  IF dict.v[e].k = key THEN [k |-> key, v |-> value] ELSE dict.v[e]])
    ELSE JObj(Append(dict.v, [k |-> key, v |-> value]))

\* the outcome of a call: a returned value or a raised exception
Return(value) == [raised |-> FALSE, exc |-> "", msg |-> "", value |-> value]
Raise(exc, msg) == [raised |-> TRUE, exc |-> exc, msg |-> msg, value |-> JNull]

\* the sum over meals of meal.get(key, 0)
RECURSIVE MealsTotal(_, _)
MealsTotal(meals, key) ==
    IF meals = <<>> THEN 0
    ELSE Get(Head(meals), key, JNum(0)).v + MealsTotal(Tail(meals), key)

\* NutritionService.calculate_day_nutrition(meals)
calculate_day_nutrition(meals) ==
    JObj(<<[k |-> "total_calories", v |-> JNum(MealsTotal(meals, "calories"))],
           [k |-> "total_protein_grams", v |-> JNum(MealsTotal(meals, "protein_grams"))],
           [k |-> "total_carbs_grams", v |-> JNum(MealsTotal(meals, "carbs_grams"))],
           [k |-> "total_fat_grams", v |-> JNum(MealsTotal(meals, "fat_grams"))]>>)

-----------------------------------------------------------------------------
(* OpenAIService (api/openai_service.py).                                  *)

\* str(uuid.uuid4()): the n-th value drawn, different from every other one
uuid4(n) == "uuid-" \o ToString(n)

\* __init__: mock replies are used when there is no API key or when the client
\* cannot be built
OpenAIService_init(api_key, client_ok) ==
    IF api_key = "" THEN TRUE ELSE ~client_ok

\* what the text-generation endpoint does with one call: it answers with a status
\* and a text, or the call fails
ApiAnswer(status_code, content) == [failed |-> FALSE, status_code |-> status_code, content |-> content]
ApiFailure == [failed |-> TRUE, status_code |-> 0, content |-> ""]

_extract_json_from_text(text) ==
    LET start_index == str_find(text, "{")
        end_index == str_rfind(text, "}") + 1
        json_text == str_slice(text, start_index, end_index)
    IN  json_loads(json_text)

_structure_meal_plan(meal_plan_json, user_id, dietary_profile_id, days, start_date, end_date) ==
    JObj(<<[k |-> "user_id", v |-> user_id],
           [k |-> "dietary_profile_id", v |-> dietary_profile_id],
           [k |-> "start_date", v |-> start_date],
           [k |-> "end_date", v |-> end_date],
           [k |-> "days", v |-> Get(meal_plan_json, "days", JArr(<<>>))]>>)

\* format(value, format_spec) of a str, which a replacement field
\* {value:format_spec} of an f-string calls: the specifiers met here are the
\* empty one, "s" and texts that are no specifier of a str at all
format_str(value, format_spec) ==
    IF format_spec \in {"", "s"} THEN Return(value)
    ELSE Raise("ValueError", "Invalid format specifier")

\* OpenAIService._create_meal_plan_prompt (lines 95-140): the JSON example of the
\* f-string stands in single braces, so that { "days": [...] }, { "day_number":
\* ... } and { "name": "Meal Name", ... } are replacement fields, each the
\* string before its first colon formatted with the text after it, and the
\* innermost is formatted first, once the fields of dietary_profile are read
\* (Python 3.12 and later; an earlier interpreter rejects the module, the fields
\* being nested three deep)
OpenAIService_create_meal_plan_prompt(dietary_profile, days, start_date, end_date) ==
    LET Field(value, before, nested, after) ==
            IF nested.raised THEN nested
            ELSE format_str(value, before \o nested.value \o after)
        meal == format_str("name", " \"Meal Name\",\n \"description\": \"Brief description of the meal\",\n \"meal_type\": \"breakfast|lunch|dinner|snack\",\n \"calories\": 500,\n")
        day == Field("day_number", " 1,\n \"date\": \"YYYY-MM-DD\",\n \"meals\": [\n", meal,
                     ",\n ...\n ],\n \"total_calories\": 2000,\n")
        plan == Field("days", " [\n", day, ",\n ...\n ]\n")
    IN  IF \E key \in {"goal_type", "dietary_styles", "allergies", "preferred_cuisines",
                       "daily_calorie_target", "meal_prep_time_limit"} :
               ~HasItem(dietary_profile, key)
        THEN Raise("KeyError", "dietary_profile")
        ELSE IF plan.raised THEN plan
        ELSE Return(JStr("Generate a meal plan for " \o ToString(days.v) \o " days" \o plan.value))

\* lines 174-183: the profile generate_meal_plan writes the prompt for
mock_dietary_profile(user_id, dietary_profile_id) ==
    JObj(<<[k |-> "id", v |-> dietary_profile_id],
           [k |-> "user_id", v |-> user_id],
           [k |-> "goal_type", v |-> JStr("weight_loss")],
           [k |-> "dietary_styles", v |-> JArr(<<JStr("mediterranean")>>)],
           [k |-> "allergies", v |-> JArr(<<JStr("nuts")>>)],
           [k |-> "preferred_cuisines", v |-> JArr(<<JStr("italian"), JStr("mexican"), JStr("asian")>>)],
           [k |-> "daily_calorie_target", v |-> JNum(2000)],
           [k |-> "meal_prep_time_limit", v |-> JNum(30)]>>)

\* lines 199-258: the three meals of every mock day
mock_meals ==
    JArr(<<
        JObj(<<
            [k |-> "name", v |-> JStr("Mediterranean Breakfast Bowl")],
            [k |-> "description", v |-> JStr("A nutritious breakfast bowl with Greek yogurt and berries")],
            [k |-> "meal_type", v |-> JStr("breakfast")],
            [k |-> "calories", v |-> JNum(350)],
            [k |-> "protein_grams", v |-> JNum(15)],
            [k |-> "carbs_grams", v |-> JNum(45)],
            [k |-> "fat_grams", v |-> JNum(12)],
            [k |-> "ingredients", v |-> JArr(<<
                JObj(<<[k |-> "name", v |-> JStr("Greek yogurt")], [k |-> "quantity", v |-> JStr("1 cup")]>>),
                JObj(<<[k |-> "name", v |-> JStr("Mixed berries")], [k |-> "quantity", v |-> JStr("1/2 cup")]>>),
                JObj(<<[k |-> "name", v |-> JStr("Honey")], [k |-> "quantity", v |-> JStr("1 tbsp")]>>),
                JObj(<<[k |-> "name", v |-> JStr("Granola")], [k |-> "quantity", v |-> JStr("1/4 cup")]>>) >>)],
            [k |-> "recipe", v |-> JStr("Mix all ingredients in a bowl and enjoy!")],
            [k |-> "preparation_time_minutes", v |-> JNum(5)],
            [k |-> "cooking_time_minutes", v |-> JNum(0)] >>),
        JObj(<<
            [k |-> "name", v |-> JStr("Grilled Chicken Salad")],
            [k |-> "description", v |-> JStr("Fresh salad with grilled chicken and mixed greens")],
            [k |-> "meal_type", v |-> JStr("lunch")],
            [k |-> "calories", v |-> JNum(450)],
            [k |-> "protein_grams", v |-> JNum(35)],
            [k |-> "carbs_grams", v |-> JNum(20)],
            [k |-> "fat_grams", v |-> JNum(25)],
            [k |-> "ingredients", v |-> JArr(<<
                JObj(<<[k |-> "name", v |-> JStr("Chicken breast")], [k |-> "quantity", v |-> JStr("6 oz")]>>),
                JObj(<<[k |-> "name", v |-> JStr("Mixed greens")], [k |-> "quantity", v |-> JStr("2 cups")]>>),
                JObj(<<[k |-> "name", v |-> JStr("Cherry tomatoes")], [k |-> "quantity", v |-> JStr("1/2 cup")]>>),
                JObj(<<[k |-> "name", v |-> JStr("Cucumber")], [k |-> "quantity", v |-> JStr("1/2")]>>),
                JObj(<<[k |-> "name", v |-> JStr("Olive oil")], [k |-> "quantity", v |-> JStr("1 tbsp")]>>),
                JObj(<<[k |-> "name", v |-> JStr("Balsamic vinegar")], [k |-> "quantity", v |-> JStr("1 tbsp")]>>) >>)],
            [k |-> "recipe", v |-> JStr("1. Grill chicken until cooked through. 2. Chop vegetables. 3. Mix all ingredients and dress with oil and vinegar.")],
            [k |-> "preparation_time_minutes", v |-> JNum(10)],
            [k |-> "cooking_time_minutes", v |-> JNum(15)] >>),
        JObj(<<
            [k |-> "name", v |-> JStr("Baked Salmon with Roasted Vegetables")],
            [k |-> "description", v |-> JStr("Oven-baked salmon fillet with seasonal vegetables")],
            [k |-> "meal_type", v |-> JStr("dinner")],
            [k |-> "calories", v |-> JNum(550)],
            [k |-> "protein_grams", v |-> JNum(40)],
            [k |-> "carbs_grams", v |-> JNum(30)],
            [k |-> "fat_grams", v |-> JNum(30)],
            [k |-> "ingredients", v |-> JArr(<<
                JObj(<<[k |-> "name", v |-> JStr("Salmon fillet")], [k |-> "quantity", v |-> JStr("6 oz")]>>),
                JObj(<<[k |-> "name", v |-> JStr("Broccoli")], [k |-> "quantity", v |-> JStr("1 cup")]>>),
                JObj(<<[k |-> "name", v |-> JStr("Bell peppers")], [k |-> "quantity", v |-> JStr("1")]>>),
                JObj(<<[k |-> "name", v |-> JStr("Olive oil")], [k |-> "quantity", v |-> JStr("1 tbsp")]>>),
                JObj(<<[k |-> "name", v |-> JStr("Lemon")], [k |-> "quantity", v |-> JStr("1/2")]>>),
                JObj(<<[k |-> "name", v |-> JStr("Garlic")], [k |-> "quantity", v |-> JStr("2 cloves")]>>) >>)],
            [k |-> "recipe", v |-> JStr("1. Preheat oven to 400°F. 2. Season salmon with salt, pepper, and lemon. 3. Chop vegetables and toss with olive oil and garlic. 4. Bake salmon and vegetables for 15-20 minutes.")],
            [k |-> "preparation_time_minutes", v |-> JNum(15)],
            [k |-> "cooking_time_minutes", v |-> JNum(20)] >>) >>)

\* lines 196-263: the mock day day_num (counted from 0)
mock_day(start_date_obj, day_num) ==
    JObj(<<[k |-> "day_number", v |-> JNum(day_num + 1)],
           [k |-> "date", v |-> JStr(strftime(AddDays(start_date_obj, day_num)))],
           [k |-> "meals", v |-> mock_meals],
           [k |-> "total_calories", v |-> JNum(1350)],
           [k |-> "total_protein_grams", v |-> JNum(90)],
           [k |-> "total_carbs_grams", v |-> JNum(95)],
           [k |-> "total_fat_grams", v |-> JNum(67)]>>)

\* the body of the try block of generate_meal_plan on the mock path
mock_meal_plan(user_id, dietary_profile_id, days, start_date, end_date) ==
    LET start_date_obj == IF start_date.t = "str" THEN strptime(start_date.v)
                          ELSE [ok |-> FALSE, date |-> <<>>]
    IN  IF start_date.t # "str" THEN Raise("TypeError", "strptime() argument 1 must be str")
        ELSE IF ~start_date_obj.ok THEN Raise("ValueError", "time data does not match format")
        ELSE IF days.t # "int" THEN Raise("TypeError", "object cannot be interpreted as an integer")
        ELSE Return(JObj(<<
                 [k |-> "user_id", v |-> user_id],
                 [k |-> "dietary_profile_id", v |-> dietary_profile_id],
                 [k |-> "start_date", v |-> start_date],
                 [k |-> "end_date", v |-> end_date],
                 [k |-> "days", v |-> JArr([n \in 1..days.v |-> mock_day(start_date_obj.date, n - 1)])]>>))

\* the body of the try block of generate_meal_plan past the mock branch (lines
\* 273-296): the prompt, the request, the reply decoded and structured
reply_meal_plan(user_id, dietary_profile_id, days, start_date, end_date, api) ==
    LET Structured(meal_plan_json) ==
            IF ~meal_plan_json.ok THEN Raise("JSONDecodeError", "Expecting value")
            ELSE IF meal_plan_json.val.t # "dict"
            THEN Raise("AttributeError", "object has no attribute 'get'")
            ELSE Return(_structure_meal_plan(meal_plan_json.val, user_id, dietary_profile_id,
                                             days, start_date, end_date))
        Asked(prompt) ==
            IF prompt.raised THEN prompt
            ELSE IF api.failed \/ api.status_code # 200 THEN Raise("APIError", "the request failed")
            ELSE Structured(_extract_json_from_text(api.content))
    IN  Asked(OpenAIService_create_meal_plan_prompt(
                  mock_dietary_profile(user_id, dietary_profile_id), days, start_date, end_date))

\* OpenAIService.generate_meal_plan: whatever the try block raises is raised
\* again as Exception("Failed to generate meal plan: ...")
OpenAIService_generate_meal_plan(mock, user_id, dietary_profile_id, days, start_date, end_date, api) ==
    LET Except(tried) ==
            IF tried.raised
            THEN Raise("Exception", "Failed to generate meal plan: " \o tried.msg)
            ELSE tried
    IN  Except(IF mock
               THEN mock_meal_plan(user_id, dietary_profile_id, days, start_date, end_date)
               ELSE reply_meal_plan(user_id, dietary_profile_id, days, start_date, end_date, api))

\* router.generate_meal_plan, POST /meal-plans/generate: now is today's date and
\* uuid the value uuid4() gives
router_generate_meal_plan(mock, meal_plan_request, now, api, uuid) ==
    LET user_id == Get(meal_plan_request, "user_id", JStr("test-user-id"))
        dietary_profile_id == Get(meal_plan_request, "dietary_profile_id", JStr("test-profile-id"))
        days == Get(meal_plan_request, "days", JNum(1))
        start_date == Get(meal_plan_request, "start_date", JStr(strftime(now)))
        end_date == Get(meal_plan_request, "end_date", JStr(strftime(AddDays(now, days.v - 1))))
        Response(meal_plan) ==
            IF meal_plan.raised
            THEN [status_code |-> 500,
                  detail |-> "Failed to generate meal plan: " \o meal_plan.msg,
                  body |-> JNull]
            ELSE [status_code |-> 200, detail |-> "",
                  body |-> SetItem(meal_plan.value, "id", JStr(uuid))]
    IN  IF days.t # "int"
        THEN [status_code |-> 500,
              detail |-> "Failed to generate meal plan: unsupported operand type(s) for -",
              body |-> JNull]
        ELSE Response(OpenAIService_generate_meal_plan(mock, user_id, dietary_profile_id,
                                                       days, start_date, end_date, api))

\* _create_shopping_list_prompt (lines 304-336): json.dumps(meal_plan, indent=2)
\* is formatted first; the JSON example stands in single braces like the one of
\* _create_meal_plan_prompt, and { "item_name": "Apples", ... } is the field
\* formatted first
_create_shopping_list_prompt(meal_plan) ==
    LET Field(value, before, nested, after) ==
            IF nested.raised THEN nested
            ELSE format_str(value, before \o nested.value \o after)
        item == format_str("item_name", " \"Apples\",\n \"quantity\": \"4\",\n \"unit\": \"medium\",\n \"note\": \"Granny Smith preferred\"\n")
        category == Field("name", " \"Produce\",\n \"items\": [\n", item, ",\n ...\n ]\n")
        list == Field("categories", " [\n", category, ",\n ...\n ]\n")
    IN  IF list.raised THEN list
        ELSE Return(JStr("Generate a shopping list for the following meal plan:" \o list.value))

_structure_shopping_list(shopping_list_json, user_id, meal_plan_id) ==
    JObj(<<[k |-> "user_id", v |-> user_id],
           [k |-> "meal_plan_id", v |-> meal_plan_id],
           [k |-> "items", v |-> Get(shopping_list_json, "categories", JArr(<<>>))]>>)

\* lines 412-527: the list the mock branch of generate_shopping_list returns
mock_shopping_list(user_id, meal_plan_id) ==
    JObj(<<
        [k |-> "user_id", v |-> user_id],
        [k |-> "meal_plan_id", v |-> meal_plan_id],
        [k |-> "items", v |-> JArr(<<
            JObj(<<
                [k |-> "name", v |-> JStr("Produce")],
                [k |-> "items", v |-> JArr(<<
                    JObj(<<
                        [k |-> "item_name", v |-> JStr("Mixed berries")],
                        [k |-> "quantity", v |-> JStr("1/2")],
                        [k |-> "unit", v |-> JStr("cup")],
                        [k |-> "note", v |-> JStr("Fresh or frozen")] >>),
                    JObj(<<
                        [k |-> "item_name", v |-> JStr("Cherry tomatoes")],
                        [k |-> "quantity", v |-> JStr("1/2")],
                        [k |-> "unit", v |-> JStr("cup")],
                        [k |-> "note", v |-> JStr("")] >>),
                    JObj(<<
                        [k |-> "item_name", v |-> JStr("Cucumber")],
                        [k |-> "quantity", v |-> JStr("1")],
                        [k |-> "unit", v |-> JStr("medium")],
                        [k |-> "note", v |-> JStr("")] >>),
                    JObj(<<
                        [k |-> "item_name", v |-> JStr("Broccoli")],
                        [k |-> "quantity", v |-> JStr("1")],
                        [k |-> "unit", v |-> JStr("cup")],
                        [k |-> "note", v |-> JStr("Fresh")] >>),
                    JObj(<<
                        [k |-> "item_name", v |-> JStr("Bell peppers")],
                        [k |-> "quantity", v |-> JStr("1")],
                        [k |-> "unit", v |-> JStr("medium")],
                        [k |-> "note", v |-> JStr("Any color")] >>),
                    JObj(<<
                        [k |-> "item_name", v |-> JStr("Lemon")],
                        [k |-> "quantity", v |-> JStr("1")],
                        [k |-> "unit", v |-> JStr("medium")],
                        [k |-> "note", v |-> JStr("")] >>),
                    JObj(<<
                        [k |-> "item_name", v |-> JStr("Garlic")],
                        [k |-> "quantity", v |-> JStr("1")],
                        [k |-> "unit", v |-> JStr("head")],
                        [k |-> "note", v |-> JStr("Need 2 cloves")] >>),
                    JObj(<<
                        [k |-> "item_name", v |-> JStr("Mixed greens")],
                        [k |-> "quantity", v |-> JStr("2")],
                        [k |-> "unit", v |-> JStr("cups")],
                        [k |-> "note", v |-> JStr("For salad")] >>) >>)] >>),
            JObj(<<
                [k |-> "name", v |-> JStr("Dairy")],
                [k |-> "items", v |-> JArr(<<
                    JObj(<<
                        [k |-> "item_name", v |-> JStr("Greek yogurt")],
                        [k |-> "quantity", v |-> JStr("1")],
                        [k |-> "unit", v |-> JStr("cup")],
                        [k |-> "note", v |-> JStr("Plain")] >>) >>)] >>),
            JObj(<<
                [k |-> "name", v |-> JStr("Meat & Seafood")],
                [k |-> "items", v |-> JArr(<<
                    JObj(<<
                        [k |-> "item_name", v |-> JStr("Chicken breast")],
                        [k |-> "quantity", v |-> JStr("6")],
                        [k |-> "unit", v |-> JStr("oz")],
                        [k |-> "note", v |-> JStr("")] >>),
                    JObj(<<
                        [k |-> "item_name", v |-> JStr("Salmon fillet")],
                        [k |-> "quantity", v |-> JStr("6")],
                        [k |-> "unit", v |-> JStr("oz")],
                        [k |-> "note", v |-> JStr("Fresh")] >>) >>)] >>),
            JObj(<<
                [k |-> "name", v |-> JStr("Pantry")],
                [k |-> "items", v |-> JArr(<<
                    JObj(<<
                        [k |-> "item_name", v |-> JStr("Honey")],
                        [k |-> "quantity", v |-> JStr("1")],
                        [k |-> "unit", v |-> JStr("tbsp")],
                        [k |-> "note", v |-> JStr("")] >>),
                    JObj(<<
                        [k |-> "item_name", v |-> JStr("Granola")],
                        [k |-> "quantity", v |-> JStr("1/4")],
                        [k |-> "unit", v |-> JStr("cup")],
                        [k |-> "note", v |-> JStr("")] >>),
                    JObj(<<
                        [k |-> "item_name", v |-> JStr("Olive oil")],
                        [k |-> "quantity", v |-> JStr("3")],
                        [k |-> "unit", v |-> JStr("tbsp")],
                        [k |-> "note", v |-> JStr("Extra virgin")] >>),
                    JObj(<<
                        [k |-> "item_name", v |-> JStr("Balsamic vinegar")],
                        [k |-> "quantity", v |-> JStr("1")],
                        [k |-> "unit", v |-> JStr("tbsp")],
                        [k |-> "note", v |-> JStr("")] >>) >>)] >>) >>)] >>)

\* the body of the try block of generate_shopping_list past the mock branch
\* (lines 529-558); the prompt is written for the constant meal plan of lines
\* 361-405, of which the ids are kept here
reply_shopping_list(user_id, meal_plan_id, api) ==
    LET Structured(shopping_list_json) ==
            IF ~shopping_list_json.ok THEN Raise("JSONDecodeError", "Expecting value")
            ELSE IF shopping_list_json.val.t # "dict"
            THEN Raise("AttributeError", "object has no attribute 'get'")
            ELSE Return(_structure_shopping_list(shopping_list_json.val, user_id, meal_plan_id))
        Asked(prompt) ==
            IF prompt.raised THEN prompt
            ELSE IF api.failed \/ api.status_code # 200 THEN Raise("APIError", "the request failed")
            ELSE Structured(_extract_json_from_text(api.content))
    IN  Asked(_create_shopping_list_prompt(
                  JObj(<<[k |-> "id", v |-> meal_plan_id], [k |-> "user_id", v |-> user_id]>>)))

\* OpenAIService.generate_shopping_list: whatever the try block raises is raised
\* again as Exception("Failed to generate shopping list: ...")
OpenAIService_generate_shopping_list(mock, user_id, meal_plan_id, api) ==
    LET Except(tried) ==
            IF tried.raised
            THEN Raise("Exception", "Failed to generate shopping list: " \o tried.msg)
            ELSE tried
    IN  Except(IF mock THEN Return(mock_shopping_list(user_id, meal_plan_id))
               ELSE reply_shopping_list(user_id, meal_plan_id, api))

\* router.generate_shopping_list, POST /shopping-lists/generate: uuid is the value
\* uuid4() gives; the store is neither read nor written
router_generate_shopping_list(mock, request, api, uuid) ==
    LET meal_plan_id == Get(request, "meal_plan_id", JStr("test-meal-plan-id"))
        user_id == Get(request, "user_id", JStr("test-user-id"))
        Response(shopping_list) ==
            IF shopping_list.raised
            THEN [status_code |-> 500,
                  detail |-> "Failed to generate shopping list: " \o shopping_list.msg,
                  body |-> JNull]
            ELSE [status_code |-> 200, detail |-> "",
                  body |-> SetItem(shopping_list.value, "id", JStr(uuid))]
    IN  Response(OpenAIService_generate_shopping_list(mock, user_id, meal_plan_id, api))

-----------------------------------------------------------------------------
(* NutritionService (api/nutrition_service.py): the hint, the external      *)
(* lookup and the sum over a meal.  Amounts are whole numbers; a pydantic   *)
(* float field takes them as they are.                                      *)

\* bool(value) of a Python value
Truthy(value) ==
    CASE value.t = "NoneType" -> FALSE
      [] value.t = "bool" -> value.v
      [] value.t = "int" -> value.v # 0
      [] OTHER -> Len(value.v) > 0

\* the values pydantic takes for a float field and for an Optional[float] field
IsNumber(value) == value.t = "int"
IsOptionalNumber(value) == value.t \in {"int", "NoneType"}

macro_fields == <<"calories", "protein_grams", "carbs_grams", "fat_grams">>
optional_fields == <<"fiber_grams", "sugar_grams", "sodium_mg", "cholesterol_mg">>

\* NutritionData(calories=estimated_data.get("calories", 0), ...,
\* fiber_grams=estimated_data.get("fiber_grams"), ...): lines 54-63 and 263-272
NutritionDataOfHint(estimated_data) ==
    IF estimated_data.t # "dict"
    THEN Raise("AttributeError", "object has no attribute 'get'")
    ELSE IF \/ \E f \in 1..4 : ~IsNumber(Get(estimated_data, macro_fields[f], JNum(0)))
            \/ \E f \in 1..4 : ~IsOptionalNumber(Get(estimated_data, optional_fields[f], JNull))
    THEN Raise("ValidationError", "validation error for NutritionData")
    ELSE Return([calories |-> Get(estimated_data, "calories", JNum(0)).v,
                 protein_grams |-> Get(estimated_data, "protein_grams", JNum(0)).v,
                 carbs_grams |-> Get(estimated_data, "carbs_grams", JNum(0)).v,
                 fat_grams |-> Get(estimated_data, "fat_grams", JNum(0)).v,
                 fiber_grams |-> Get(estimated_data, "fiber_grams", JNull),
                 sugar_grams |-> Get(estimated_data, "sugar_grams", JNull),
                 sodium_mg |-> Get(estimated_data, "sodium_mg", JNull),
                 cholesterol_mg |-> Get(estimated_data, "cholesterol_mg", JNull),
                 detailed_nutrients |-> JNull])

\* lines 138-147: the nutrient ids of the lookup and the fields they fill
nutrient_map ==
    (1008 :> "calories") @@ (1003 :> "protein_grams") @@ (1005 :> "carbs_grams") @@
    (1004 :> "fat_grams") @@ (1079 :> "fiber_grams") @@ (2000 :> "sugar_grams") @@
    (1093 :> "sodium_mg") @@ (1253 :> "cholesterol_mg")

\* lines 125-135: the fields before the loop
initial_nutrition_data ==
    [data |-> [field \in {"calories", "protein_grams", "carbs_grams", "fat_grams",
                          "fiber_grams", "sugar_grams", "sodium_mg", "cholesterol_mg"} |->
                  JNum(0)],
     detailed_nutrients |-> <<>>,
     raised |-> FALSE]

\* what a for loop goes through: the elements of a list, the keys of a dict, the
\* characters of a str
Elements(value) ==
    CASE value.t = "list" -> value.v
      [] value.t = "dict" -> [e \in 1..Len(value.v) |-> JStr(value.v[e].k)]
      [] OTHER -> [e \in 1..Len(value.v) |-> JStr(CharAt(value.v, e))]

\* lines 150-164, one nutrient of the loop: the mapped field takes the amount,
\* and a nutrient with an amount and a name is added to the detailed ones
NutrientStep(acc, nutrient) ==
    LET Failed == [acc EXCEPT !.raised = TRUE]
        Step(inner) ==
            LET nutrient_id == Get(inner, "id", JNull)
                mapped == nutrient_id.t = "int" /\ nutrient_id.v \in DOMAIN nutrient_map
                data == IF mapped
                        THEN [acc.data EXCEPT ![nutrient_map[nutrient_id.v]] =
                                                  Get(nutrient, "amount", JNum(0))]
                        ELSE acc.data
                amount == Get(nutrient, "amount", JNull)
                name == Get(inner, "name", JNull)
                unit == Get(inner, "unitName", JStr("g"))
                percent_daily_value == Get(nutrient, "percentDailyValue", JNull)
            IN  IF nutrient_id.t \in {"list", "dict"} THEN Failed
                ELSE IF Truthy(amount) /\ Truthy(name)
                THEN IF /\ name.t = "str" /\ IsNumber(amount) /\ unit.t = "str"
                        /\ IsOptionalNumber(percent_daily_value)
                     THEN [data |-> data,
                           detailed_nutrients |->
                               Append(acc.detailed_nutrients,
                                      [name |-> name.v, amount |-> amount.v, unit |-> unit.v,
                                       percent_daily_value |-> percent_daily_value]),
                           raised |-> FALSE]
                     ELSE Failed
                ELSE [acc EXCEPT !.data = data]
    IN  IF acc.raised THEN acc
        ELSE IF nutrient.t # "dict" THEN Failed
        ELSE IF Get(nutrient, "nutrient", JObj(<<>>)).t # "dict" THEN Failed
        ELSE Step(Get(nutrient, "nutrient", JObj(<<>>)))

\* lines 149-164
RECURSIVE NutrientLoop(_, _)
NutrientLoop(acc, nutrients) ==
    IF nutrients = <<>> THEN acc
    ELSE NutrientLoop(NutrientStep(acc, Head(nutrients)), Tail(nutrients))

\* line 166, NutritionData(**nutrition_data)
NutritionDataOfLookup(acc) ==
    IF \/ \E f \in 1..4 : ~IsNumber(acc.data[macro_fields[f]])
       \/ \E f \in 1..4 : ~IsOptionalNumber(acc.data[optional_fields[f]])
    THEN Raise("ValidationError", "validation error for NutritionData")
    ELSE Return([calories |-> acc.data["calories"].v,
                 protein_grams |-> acc.data["protein_grams"].v,
                 carbs_grams |-> acc.data["carbs_grams"].v,
                 fat_grams |-> acc.data["fat_grams"].v,
                 fiber_grams |-> acc.data["fiber_grams"],
                 sugar_grams |-> acc.data["sugar_grams"],
                 sodium_mg |-> acc.data["sodium_mg"],
                 cholesterol_mg |-> acc.data["cholesterol_mg"],
                 detailed_nutrients |-> JArr(acc.detailed_nutrients)])

\* NutritionService._get_usda_nutrition_data: search and detail are what the
\* lookup does with the two GET requests.  The outcome comes with the number of
\* requests made.  Whatever the try block raises gives the keyword estimate.
_get_usda_nutrition_data(food_name, quantity, search, detail) ==
    LET Estimated(requests) ==
            [outcome |-> Return(_get_estimated_nutrition_data(food_name)),
             requests |-> requests]
        Built(nutrition_data) ==
            IF nutrition_data.raised THEN Estimated(2)
            ELSE [outcome |-> nutrition_data, requests |-> 2]
        Looped(acc) ==
            IF acc.raised THEN Estimated(2) ELSE Built(NutritionDataOfLookup(acc))
        Nutrients(nutrients) ==
            IF nutrients.t \notin {"list", "dict", "str"} THEN Estimated(2)
            ELSE Looped(NutrientLoop(initial_nutrition_data, Elements(nutrients)))
        Detail(detail_data) ==
            IF ~detail_data.ok THEN Estimated(2)
            ELSE IF detail_data.val.t # "dict" THEN Estimated(2)
            ELSE Nutrients(Get(detail_data.val, "foodNutrients", JArr(<<>>)))
        Foods(foods) ==
            IF ~Truthy(foods) THEN Estimated(1)
            ELSE IF foods.t # "list" THEN Estimated(1)
            ELSE IF foods.v[1].t # "dict" THEN Estimated(1)
            ELSE IF ~HasItem(foods.v[1], "fdcId") THEN Estimated(1)
            ELSE IF detail.failed THEN Estimated(2)
            ELSE Detail(json_loads(detail.content))
        Search(search_data) ==
            IF ~search_data.ok THEN Estimated(1)
            ELSE IF search_data.val.t # "dict" THEN Estimated(1)
            ELSE Foods(Get(search_data.val, "foods", JNull))
    IN  IF search.failed THEN Estimated(1)
        ELSE Search(json_loads(search.content))

\* get_nutrition_data with the external lookup asked before the hint is looked at
Mut_get_nutrition_data_lookup_first(food_name, quantity, estimated_data, usda_configured, search, detail) ==
    IF usda_configured
    THEN _get_usda_nutrition_data(food_name, quantity, search, detail)
    ELSE IF Truthy(estimated_data)
    THEN [outcome |-> NutritionDataOfHint(estimated_data), requests |-> 0]
    ELSE [outcome |-> Return(_get_estimated_nutrition_data(food_name)), requests |-> 0]

\* NutritionService.get_nutrition_data
get_nutrition_data(food_name, quantity, estimated_data, usda_configured, search, detail) ==
    IF Truthy(estimated_data)
    THEN [outcome |-> NutritionDataOfHint(estimated_data), requests |-> 0]
    ELSE IF usda_configured
    THEN _get_usda_nutrition_data(food_name, quantity, search, detail)
    ELSE [outcome |-> Return(_get_estimated_nutrition_data(food_name)), requests |-> 0]

\* lines 276-289: the sum of a field over the keyword estimates of the ingredients
RECURSIVE EstimatesTotal(_, _)
EstimatesTotal(ingredients, field) ==
    IF ingredients = <<>> THEN 0
    ELSE _get_estimated_nutrition_data(Head(ingredients))[field]
             + EstimatesTotal(Tail(ingredients), field)

\* NutritionService.calculate_meal_nutrition
calculate_meal_nutrition(ingredients, estimated_data) ==
    IF Truthy(estimated_data)
    THEN NutritionDataOfHint(estimated_data)
    ELSE Return(NutritionData(EstimatesTotal(ingredients, "calories"),
                              EstimatesTotal(ingredients, "protein_grams"),
                              EstimatesTotal(ingredients, "carbs_grams"),
                              EstimatesTotal(ingredients, "fat_grams")))

\* await of what a call gave: a coroutine, of an async def, gives its outcome,
\* and any other object raises TypeError
Await(is_coroutine, outcome, type_name) ==
    IF is_coroutine \/ outcome.raised THEN outcome
    ELSE Raise("TypeError", "object " \o type_name \o " can't be used in 'await' expression")

\* router.calculate_nutrition, POST /nutrition/calculate: calculate_meal_nutrition
\* is a plain def (line 249 of nutrition_service.py) and line 208 awaits it
router_calculate_nutrition(request) ==
    LET Response(nutrition_data) ==
            IF nutrition_data.raised
            THEN [status_code |-> 500,
                  detail |-> "Failed to calculate nutrition data: " \o nutrition_data.msg,
                  body |-> JNull]
            ELSE [status_code |-> 200, detail |-> "", body |-> nutrition_data.value]
    IN  Response(Await(FALSE,
                       calculate_meal_nutrition(request.ingredients, request.estimated_data),
                       "NutritionData"))

-----------------------------------------------------------------------------
(* The store and its two clients: SupabaseService (api/supabase_service.py) *)
(* and SupabaseManager (db/supabase_client.py).  A table is the sequence of *)
(* its rows in insertion order, a row a record of its columns; a column a   *)
(* row was inserted without is no field of the record.  Optional values of  *)
(* the pydantic models are tagged values, None or an int or a str.          *)

\* one character of a string literal as json.dumps writes it (ASCII text)
EscapeChar(c) ==
    CASE c = "\"" -> "\\\""
      [] c = "\\" -> "\\\\"
      [] c = "\n" -> "\\n"
      [] c = "\r" -> "\\r"
      [] c = "\t" -> "\\t"
      [] c = "\f" -> "\\f"
      [] OTHER -> c

\* mutant: the string is written between quotes as it is
Mut_dumps_str_unescaped(s) == "\"" \o s \o "\""

\* json.dumps of a str
json_dumps_str(s) ==
    "\"" \o Concat([i \in 1..Len(s) |-> EscapeChar(CharAt(s, i))], 1, Len(s)) \o "\""

\* json.dumps of a list of str: the literals joined by ", " between brackets
json_dumps(list) ==
    "[" \o Concat([k \in 1..Len(list) |->
                      (IF k = 1 THEN "" ELSE ", ") \o json_dumps_str(list[k])], 1, Len(list))
        \o "]"

\* the printable characters of ASCII, in the order of their codes
AsciiChars ==
    " !\"#$%&'()*+,-./0123456789:;<=>?@ABCDEFGHIJKLMNOPQRSTUVWXYZ[\\]^_abcdefghijklmnopqrstuvwxyz{|}~"

CharCode(c) == CHOOSE i \in 1..Len(AsciiChars) : CharAt(AsciiChars, i) = c

\* a sorts before b
RECURSIVE StrLess(_, _)
StrLess(a, b) ==
    IF b = "" THEN FALSE
    ELSE IF a = "" THEN TRUE
    ELSE IF CharAt(a, 1) = CharAt(b, 1)
    THEN StrLess(SubSeq(a, 2, Len(a)), SubSeq(b, 2, Len(b)))
    ELSE CharCode(CharAt(a, 1)) < CharCode(CharAt(b, 1))

\* .order(column, asc=True): rows by the column, rows of equal value in the
\* order the store holds them
OrderBy(rows, column) ==
    LET Before(i, j) ==
            \/ StrLess(rows[i][column], rows[j][column])
            \/ ~StrLess(rows[j][column], rows[i][column]) /\ i < j
        Rank(i) == Cardinality({j \in 1..Len(rows) : Before(j, i)}) + 1
    IN  [k \in 1..Len(rows) |-> rows[CHOOSE i \in 1..Len(rows) : Rank(i) = k]]

\* .eq(column, value): a row without the column holds NULL there and is no match
Eq(row, column, value) == column \in DOMAIN row /\ row[column] = value

\* the rows the POST requests sent add to the tables of store
Insert(store, sent) ==
    [tbl \in DOMAIN store |->
        store[tbl] \o [k \in 1..Cardinality({j \in 1..Len(sent) : sent[j].tbl = tbl}) |->
                          sent[CHOOSE j \in 1..Len(sent) :
                                   /\ sent[j].tbl = tbl
                                   /\ Cardinality({o \in 1..j : sent[o].tbl = tbl}) = k].row]]

\* lines 84-91: meal_plan_data, created_at left out
meal_plan_data(meal_plan, meal_plan_id) ==
    [id |-> meal_plan_id,
     user_id |-> meal_plan.user_id,
     dietary_profile_id |-> meal_plan.dietary_profile_id,
     start_date |-> meal_plan.start_date,
     end_date |-> meal_plan.end_date]

\* lines 106-115: day_data
day_data(day, meal_plan_id, id) ==
    [id |-> id,
     meal_plan_id |-> meal_plan_id,
     day_number |-> day.day_number,
     date |-> day.date,
     total_calories |-> day.total_calories,
     total_protein_grams |-> day.total_protein_grams,
     total_carbs_grams |-> day.total_carbs_grams,
     total_fat_grams |-> day.total_fat_grams]

\* lines 131-145: meal_data
meal_data(meal, day_id, id) ==
    [id |-> id,
     day_id |-> day_id,
     name |-> meal.name,
     description |-> meal.description,
     meal_type |-> meal.meal_type,
     calories |-> meal.calories,
     protein_grams |-> meal.protein_grams,
     carbs_grams |-> meal.carbs_grams,
     fat_grams |-> meal.fat_grams,
     ingredients |-> json_dumps(meal.ingredients),
     recipe |-> meal.recipe,
     preparation_time_minutes |-> meal.preparation_time_minutes,
     cooking_time_minutes |-> meal.cooking_time_minutes]

\* lines 105-154: the POST requests of the loop over days when none fails, in
\* order; every request follows one uuid4(), drawn the number drawn before
RECURSIVE DayPosts(_, _, _)
DayPosts(days, meal_plan_id, drawn) ==
    IF days = <<>> THEN <<>>
    ELSE <<[tbl |-> "days", row |-> day_data(Head(days), meal_plan_id, uuid4(drawn + 1))]>>
         \o [m \in 1..Len(Head(days).meals) |->
                [tbl |-> "meals",
                 row |-> meal_data(Head(days).meals[m], uuid4(drawn + 1), uuid4(drawn + 1 + m))]]
         \o DayPosts(Tail(days), meal_plan_id, drawn + 1 + Len(Head(days).meals))

\* save_meal_plan with the plan row sent after the rows of its days and meals
Mut_MealPlanPosts_plan_last(meal_plan, drawn) ==
    DayPosts(meal_plan.days, uuid4(drawn + 1), drawn + 1)
        \o <<[tbl |-> "meal_plans", row |-> meal_plan_data(meal_plan, uuid4(drawn + 1))]>>

\* the POST requests of save_meal_plan when none fails
MealPlanPosts(meal_plan, drawn) ==
    <<[tbl |-> "meal_plans", row |-> meal_plan_data(meal_plan, uuid4(drawn + 1))]>>
        \o DayPosts(meal_plan.days, uuid4(drawn + 1), drawn + 1)

\* what the saves call the row of a table in the exception of a failed request
step_name(tbl) ==
    CASE tbl = "meal_plans" -> "meal plan"
      [] tbl = "days" -> "day"
      [] tbl = "meals" -> "meal"
      [] tbl = "shopping_lists" -> "shopping list"
      [] tbl = "shopping_list_items" -> "shopping list item"

\* the requests a save has sent to the store, in order, each with the status the
\* store answered it with
Requests(posts, failAt) ==
    [j \in 1..(IF failAt = 0 THEN Len(posts) ELSE failAt) |->
        [method |-> "POST", tbl |-> posts[j].tbl, row |-> posts[j].row,
         status_code |-> IF j = failAt THEN 400 ELSE 201]]

\* a save that takes back what it has written when a request fails
Mut_Saved_rolls_back(store, posts, failAt, saved, what) ==
    IF failAt = 0
    THEN [outcome |-> Return(saved), db |-> Insert(store, posts), drawn |-> Len(posts),
          requests |-> Requests(posts, failAt)]
    ELSE [outcome |-> Raise("Exception", "Error saving " \o what \o ": Failed to save "
                                          \o step_name(posts[failAt].tbl) \o ": "),
          db |-> store,
          drawn |-> failAt,
          requests |-> Requests(posts, failAt)]

\* what a save does with its POST requests when the store answers request
\* failAt with a status other than 201 (all with 201 when failAt = 0): the rows
\* of the requests before it are in the store, and the save raises
Saved(store, posts, failAt, saved, what) ==
    IF failAt = 0
    THEN [outcome |-> Return(saved), db |-> Insert(store, posts), drawn |-> Len(posts),
          requests |-> Requests(posts, failAt)]
    ELSE [outcome |-> Raise("Exception", "Error saving " \o what \o ": Failed to save "
                                          \o step_name(posts[failAt].tbl) \o ": "),
          db |-> Insert(store, SubSeq(posts, 1, failAt - 1)),
          drawn |-> failAt,
          requests |-> Requests(posts, failAt)]

\* SupabaseService.save_meal_plan
save_meal_plan(store, meal_plan, drawn, failAt) ==
    Saved(store, MealPlanPosts(meal_plan, drawn), failAt,
          [id |-> uuid4(drawn + 1)] @@ meal_plan, "meal plan")

\* lines 198-207: item_data
item_data(item, shopping_list_id, id) ==
    [id |-> id,
     shopping_list_id |-> shopping_list_id,
     item_name |-> item.item_name,
     quantity |-> item.quantity,
     unit |-> item.unit,
     category |-> item.category,
     note |-> item.note,
     is_purchased |-> item.is_purchased]

\* save_shopping_list with the items under the id drawn before that of the list
Mut_ShoppingListPosts_earlier_parent(shopping_list, drawn) ==
    <<[tbl |-> "shopping_lists",
       row |-> [id |-> uuid4(drawn + 1),
                user_id |-> shopping_list.user_id,
                meal_plan_id |-> shopping_list.meal_plan_id]]>>
        \o [e \in 1..Len(shopping_list.items) |->
               [tbl |-> "shopping_list_items",
                row |-> item_data(shopping_list.items[e], uuid4(drawn), uuid4(drawn + 1 + e))]]

\* the POST requests of save_shopping_list when none fails; created_at is left out
ShoppingListPosts(shopping_list, drawn) ==
    <<[tbl |-> "shopping_lists",
       row |-> [id |-> uuid4(drawn + 1),
                user_id |-> shopping_list.user_id,
                meal_plan_id |-> shopping_list.meal_plan_id]]>>
        \o [e \in 1..Len(shopping_list.items) |->
               [tbl |-> "shopping_list_items",
                row |-> item_data(shopping_list.items[e], uuid4(drawn + 1), uuid4(drawn + 1 + e))]]

\* SupabaseService.save_shopping_list
save_shopping_list(store, shopping_list, drawn, failAt) ==
    Saved(store, ShoppingListPosts(shopping_list, drawn), failAt,
          [id |-> uuid4(drawn + 1)] @@ shopping_list, "shopping list")

\* lines 277-279: the ingredients of a meal row read back from their JSON text
LoadedMeal(meal) ==
    IF "ingredients" \in DOMAIN meal /\ meal.ingredients # ""
    THEN [meal EXCEPT !.ingredients = json_loads(meal.ingredients).val]
    ELSE meal

\* lines 252-282: the days of the plan, each with its meals; the two requests
\* name no order, so the rows come in the order the store holds them
LoadedDays(store, meal_plan_id) ==
    LET days == SelectSeq(store.days, LAMBDA day : Eq(day, "meal_plan_id", meal_plan_id))
        MealsOf(day) == SelectSeq(store.meals, LAMBDA meal : Eq(meal, "day_id", day.id))
        Loaded(meals) == [m \in 1..Len(meals) |-> LoadedMeal(meals[m])]
    IN  [n \in 1..Len(days) |-> [meals |-> Loaded(MealsOf(days[n]))] @@ days[n]]

\* SupabaseService.get_meal_plan; answers is FALSE when the store answers a GET
\* request of the call with a status other than 200
SupabaseService_get_meal_plan(store, meal_plan_id, answers) ==
    LET Found(meal_plans) ==
            IF ~answers THEN Raise("Exception", "Error getting meal plan: Failed to get")
            ELSE IF meal_plans = <<>> THEN Return(JNull)
            ELSE IF \E meal \in {store.meals[m] : m \in 1..Len(store.meals)} :
                       /\ \E day \in {store.days[n] : n \in 1..Len(store.days)} :
                              Eq(day, "meal_plan_id", meal_plan_id) /\ Eq(meal, "day_id", day.id)
                       /\ "ingredients" \in DOMAIN meal
                       /\ meal.ingredients # ""
                       /\ ~json_loads(meal.ingredients).ok
            THEN Raise("Exception", "Error getting meal plan: Expecting value")
            ELSE Return([days |-> LoadedDays(store, meal_plan_id)] @@ meal_plans[1])
    IN  Found(SelectSeq(store.meal_plans, LAMBDA row : Eq(row, "id", meal_plan_id)))

\* SupabaseService.get_shopping_list
SupabaseService_get_shopping_list(store, shopping_list_id, answers) ==
    LET Found(shopping_lists) ==
            IF ~answers THEN Raise("Exception", "Error getting shopping list: Failed to get")
            ELSE IF shopping_lists = <<>> THEN Return(JNull)
            ELSE Return([items |-> SelectSeq(store.shopping_list_items,
                                             LAMBDA item : Eq(item, "shopping_list_id",
                                                              shopping_list_id))]
                        @@ shopping_lists[1])
    IN  Found(SelectSeq(store.shopping_lists, LAMBDA row : Eq(row, "id", shopping_list_id)))

\* SupabaseManager.get_meal_plan; the embedded dietary profile is left out
SupabaseManager_get_meal_plan(store, meal_plan_id, user_id) ==
    LET Found(data) ==
            IF data = <<>>
            THEN Raise("ValueError", "Meal plan not found for ID: " \o meal_plan_id)
            ELSE Return([meals |-> OrderBy(SelectSeq(store.meals,
                                                     LAMBDA meal : Eq(meal, "meal_plan_id",
                                                                      meal_plan_id)),
                                           "meal_date")]
                        @@ data[1])
    IN  Found(SelectSeq(store.meal_plans,
                        LAMBDA row : Eq(row, "id", meal_plan_id) /\ Eq(row, "user_id", user_id)))

\* SupabaseManager.get_shopping_list: meal_plans!inner keeps the lists whose
\* meal plan is a row of meal_plans with the user_id asked for
SupabaseManager_get_shopping_list(store, shopping_list_id, user_id) ==
    LET PlansOf(row) ==
            SelectSeq(store.meal_plans,
                      LAMBDA plan : Eq(row, "meal_plan_id", plan.id) /\ Eq(plan, "user_id", user_id))
        Found(data) ==
            IF data = <<>>
            THEN Raise("ValueError", "Shopping list not found for ID: " \o shopping_list_id)
            ELSE Return([meal_plans |-> PlansOf(data[1])[1],
                         items |-> OrderBy(SelectSeq(store.shopping_list_items,
                                                     LAMBDA item : Eq(item, "shopping_list_id",
                                                                      shopping_list_id)),
                                           "category")]
                        @@ data[1])
    IN  Found(SelectSeq(store.shopping_lists,
                        LAMBDA row : Eq(row, "id", shopping_list_id) /\ PlansOf(row) # <<>>))

\* row with the columns of update_data set
Updated(row, update_data) ==
    [column \in DOMAIN row |->
        IF column \in DOMAIN update_data THEN update_data[column] ELSE row[column]]

\* mutant: the update is scoped by the item id alone
Mut_update_by_item_id(store, item_id, shopping_list_id, update_data) ==
    LET Hit(row) == Eq(row, "id", item_id)
        data == SelectSeq(store.shopping_list_items, Hit)
    IN  IF data = <<>>
        THEN [outcome |-> Raise("ValueError", "Failed to update shopping list item: " \o item_id),
              db |-> store]
        ELSE [outcome |-> Return(Updated(data[1], update_data)),
              db |-> [store EXCEPT !.shopping_list_items =
                         [e \in 1..Len(@) |->
                             IF Hit(@[e]) THEN Updated(@[e], update_data) ELSE @[e]]]]

\* SupabaseManager.update_shopping_list_item: the rows with both the id and the
\* shopping_list_id are updated and returned
update_shopping_list_item(store, item_id, shopping_list_id, update_data) ==
    LET Hit(row) == Eq(row, "id", item_id) /\ Eq(row, "shopping_list_id", shopping_list_id)
        data == SelectSeq(store.shopping_list_items, Hit)
    IN  IF data = <<>>
        THEN [outcome |-> Raise("ValueError", "Failed to update shopping list item: " \o item_id),
              db |-> store]
        ELSE [outcome |-> Return(Updated(data[1], update_data)),
              db |-> [store EXCEPT !.shopping_list_items =
                         [e \in 1..Len(@) |->
                             IF Hit(@[e]) THEN Updated(@[e], update_data) ELSE @[e]]]]

\* PUT /shopping-lists/{shopping_list_id}/items/{item_id} with the body
\* {"is_purchased": is_purchased}: the updated item, or 404 when the update finds
\* no item
put_shopping_list_item(store, shopping_list_id, item_id, is_purchased) ==
    LET Response(updated) ==
            [response |-> IF updated.outcome.raised
                          THEN [status_code |-> 404, detail |-> updated.outcome.msg, body |-> JNull]
                          ELSE [status_code |-> 200, detail |-> "",
                                body |-> updated.outcome.value],
             db |-> updated.db]
    IN  Response(update_shopping_list_item(store, item_id, shopping_list_id,
                                           [is_purchased |-> is_purchased]))

\* raise HTTPException(status_code=status_code, detail=detail)
HTTPException(status_code, detail) ==
    [raised |-> TRUE, exc |-> "HTTPException", msg |-> detail, value |-> JNum(status_code)]

\* what the client gets of a handler: the value it returns with status 200, or the
\* status and the detail of the HTTPException it raises
Responded(outcome) ==
    IF outcome.raised
    THEN [status_code |-> outcome.value.v, detail |-> outcome.msg, body |-> JNull]
    ELSE [status_code |-> 200, detail |-> "", body |-> outcome.value]

\* the except clauses of the GET handlers, of which every one reads as catch_all
\* here: the 404 of the try block is the 500 of a failure
Mut_except_clauses_catch_all(tried, failure) ==
    IF tried.raised THEN HTTPException(500, failure \o tried.msg)
    ELSE tried

\* the except clauses of the GET handlers (router.py 150-156, 187-193, 339-345):
\* an HTTPException of the try block is raised again, and any other exception is
\* raised as HTTPException 500 with failure and the text of the exception
except_clauses(tried, failure) ==
    IF tried.raised /\ tried.exc = "HTTPException" THEN tried
    ELSE IF tried.raised THEN HTTPException(500, failure \o tried.msg)
    ELSE tried

\* not value, of what a load returns: None, or a row, which holds an id
NotLoaded(value) == value = JNull

\* router.get_meal_plan, GET /meal-plans/{meal_plan_id}
router_get_meal_plan(store, meal_plan_id, answers) ==
    LET Try(meal_plan) ==
            IF meal_plan.raised THEN meal_plan
            ELSE IF NotLoaded(meal_plan.value)
            THEN HTTPException(404, "Meal plan with ID " \o meal_plan_id \o " not found")
            ELSE meal_plan
    IN  Responded(except_clauses(Try(SupabaseService_get_meal_plan(store, meal_plan_id, answers)),
                                 "Failed to retrieve meal plan: "))

\* lines 178-183: the ingredients of the meals of the days, in order, of the
\* meals that hold some; the ingredients of a loaded meal are the value its row's
\* text decodes to (LoadedMeal)
RECURSIVE all_ingredients(_)
all_ingredients(meals) ==
    IF meals = <<>> THEN <<>>
    ELSE IF "ingredients" \in DOMAIN Head(meals) /\ Truthy(Head(meals).ingredients)
    THEN Elements(Head(meals).ingredients) \o all_ingredients(Tail(meals))
    ELSE all_ingredients(Tail(meals))

\* the meals of the days of a loaded plan, in order
RECURSIVE MealsOfDays(_)
MealsOfDays(days) ==
    IF days = <<>> THEN <<>> ELSE Head(days).meals \o MealsOfDays(Tail(days))

\* mutant: the handler reads the meals of the first day of the plan only
Mut_ingredients_of_first_day(store, meal_plan_id, answers) ==
    LET FirstDay(days) == IF days = <<>> THEN <<>> ELSE Head(days).meals
        Try(meal_plan) ==
            IF meal_plan.raised THEN meal_plan
            ELSE IF NotLoaded(meal_plan.value)
            THEN HTTPException(404, "Meal plan with ID " \o meal_plan_id \o " not found")
            ELSE Return([meal_plan_id |-> meal_plan_id,
                         ingredients |-> all_ingredients(FirstDay(meal_plan.value.days))])
    IN  Responded(except_clauses(Try(SupabaseService_get_meal_plan(store, meal_plan_id, answers)),
                                 "Failed to get meal plan ingredients: "))

\* router.get_meal_plan_ingredients, GET /meal-plans/{meal_plan_id}/ingredients
router_get_meal_plan_ingredients(store, meal_plan_id, answers) ==
    LET Try(meal_plan) ==
            IF meal_plan.raised THEN meal_plan
            ELSE IF NotLoaded(meal_plan.value)
            THEN HTTPException(404, "Meal plan with ID " \o meal_plan_id \o " not found")
            ELSE IF \E meal \in {MealsOfDays(meal_plan.value.days)[e] :
                                    e \in 1..Len(MealsOfDays(meal_plan.value.days))} :
                       /\ "ingredients" \in DOMAIN meal
                       /\ meal.ingredients.t \in {"int", "bool"}
                       /\ Truthy(meal.ingredients)
            THEN Raise("TypeError", "object is not iterable")
            ELSE Return([meal_plan_id |-> meal_plan_id,
                         ingredients |-> all_ingredients(MealsOfDays(meal_plan.value.days))])
    IN  Responded(except_clauses(Try(SupabaseService_get_meal_plan(store, meal_plan_id, answers)),
                                 "Failed to get meal plan ingredients: "))

\* router.get_shopping_list, GET /shopping-lists/{shopping_list_id}
router_get_shopping_list(store, shopping_list_id, answers) ==
    LET Try(shopping_list) ==
            IF shopping_list.raised THEN shopping_list
            ELSE IF NotLoaded(shopping_list.value)
            THEN HTTPException(404, "Shopping list with ID " \o shopping_list_id \o " not found")
            ELSE shopping_list
    IN  Responded(except_clauses(Try(SupabaseService_get_shopping_list(store, shopping_list_id,
                                                                       answers)),
                                 "Failed to retrieve shopping list: "))

\* SupabaseManager.create_dietary_profile (supabase_client.py 108-122): the store
\* gives the row its id; inserted is FALSE when the insert brings no row back
create_dietary_profile(store, profile_data, drawn, inserted) ==
    LET row == [id |-> uuid4(drawn + 1)] @@ profile_data
    IN  IF ~inserted
        THEN [outcome |-> Raise("ValueError", "Failed to create dietary profile"), db |-> store]
        ELSE [outcome |-> Return(row),
              db |-> [store EXCEPT !.dietary_profiles = Append(@, row)]]

\* get_dietary_profile with the filter on the id alone
Mut_get_dietary_profile_by_id_only(store, profile_id, user_id) ==
    LET Found(data) ==
            IF data = <<>>
            THEN Raise("ValueError", "Dietary profile not found for ID: " \o profile_id)
            ELSE Return(data[1])
    IN  Found(SelectSeq(store.dietary_profiles, LAMBDA row : Eq(row, "id", profile_id)))

\* SupabaseManager.get_dietary_profile (supabase_client.py 85-106)
get_dietary_profile(store, profile_id, user_id) ==
    LET Found(data) ==
            IF data = <<>>
            THEN Raise("ValueError", "Dietary profile not found for ID: " \o profile_id)
            ELSE Return(data[1])
    IN  Found(SelectSeq(store.dietary_profiles,
                        LAMBDA row : Eq(row, "id", profile_id) /\ Eq(row, "user_id", user_id)))

-----------------------------------------------------------------------------
(* MealPlanService: the model call and the parser of its reply             *)
(* (api/meal_plan_service.py).                                             *)

meal_types == <<"breakfast", "lunch", "dinner">>

\* meal_types.index(meal_type), counted from 0
meal_types_index(meal_type) ==
    (CHOOSE i \in 1..Len(meal_types) : meal_types[i] = meal_type.v) - 1

\* mutant: the day offset is the position of the meal type, not divided by 3
Mut_validated_meal_offset_by_type(meal, start_date, uuid) ==
    LET day_offset ==
            IF /\ HasItem(meal, "meal_type")
               /\ Item(meal, "meal_type").t = "str"
               /\ \E i \in 1..Len(meal_types) : meal_types[i] = Item(meal, "meal_type").v
            THEN meal_types_index(Item(meal, "meal_type"))
            ELSE 0
        meal_date == AddDays(start_date, day_offset)
    IN  JObj(<<[k |-> "id", v |-> JStr(uuid)],
               [k |-> "name", v |-> Get(meal, "name", JStr("Untitled Meal"))],
               [k |-> "description", v |-> Get(meal, "description", JStr(""))],
               [k |-> "meal_date", v |-> JStr(isoformat(meal_date))],
               [k |-> "meal_type", v |-> Get(meal, "meal_type", JStr("dinner"))],
               [k |-> "calories", v |-> Get(meal, "calories", JNum(0))],
               [k |-> "prep_time", v |-> Get(meal, "prep_time", JNum(0))],
               [k |-> "ingredients", v |-> Get(meal, "ingredients", JArr(<<>>))],
               [k |-> "instructions", v |-> Get(meal, "instructions", JArr(<<>>))],
               [k |-> "tags", v |-> Get(meal, "tags", JArr(<<>>))]>>)

\* lines 247-275: one pass of the loop over the decoded meals; start_date is
\* datetime.now() and uuid the value uuid4() gives; created_at and updated_at
\* are left out
validated_meal(meal, start_date, uuid) ==
    LET day_offset ==
            IF /\ HasItem(meal, "meal_type")
               /\ Item(meal, "meal_type").t = "str"
               /\ \E i \in 1..Len(meal_types) : meal_types[i] = Item(meal, "meal_type").v
            THEN meal_types_index(Item(meal, "meal_type")) \div 3
            ELSE 0
        meal_date == AddDays(start_date, day_offset)
    IN  JObj(<<[k |-> "id", v |-> JStr(uuid)],
               [k |-> "name", v |-> Get(meal, "name", JStr("Untitled Meal"))],
               [k |-> "description", v |-> Get(meal, "description", JStr(""))],
               [k |-> "meal_date", v |-> JStr(isoformat(meal_date))],
               [k |-> "meal_type", v |-> Get(meal, "meal_type", JStr("dinner"))],
               [k |-> "calories", v |-> Get(meal, "calories", JNum(0))],
               [k |-> "prep_time", v |-> Get(meal, "prep_time", JNum(0))],
               [k |-> "ingredients", v |-> Get(meal, "ingredients", JArr(<<>>))],
               [k |-> "instructions", v |-> Get(meal, "instructions", JArr(<<>>))],
               [k |-> "tags", v |-> Get(meal, "tags", JArr(<<>>))]>>)

\* lines 284-305: the meal of the placeholder list for day (counted from 0) and
\* meal type; created_at and updated_at are left out
default_meal(day, meal_type, start_date, uuid) ==
    JObj(<<[k |-> "id", v |-> JStr(uuid)],
           [k |-> "name", v |-> JStr("Default " \o str_capitalize(meal_type) \o " for Day "
                                     \o ToString(day + 1))],
           [k |-> "description", v |-> JStr("A balanced meal")],
           [k |-> "meal_date", v |-> JStr(isoformat(AddDays(start_date, day)))],
           [k |-> "meal_type", v |-> JStr(meal_type)],
           [k |-> "calories", v |-> JNum(500)],
           [k |-> "prep_time", v |-> JNum(30)],
           [k |-> "ingredients", v |-> JArr(<<JStr("Ingredient 1"), JStr("Ingredient 2"), JStr("Ingredient 3")>>)],
           [k |-> "instructions", v |-> JArr(<<JStr("Step 1"), JStr("Step 2"), JStr("Step 3")>>)],
           [k |-> "tags", v |-> JArr(<<JStr("balanced"), JStr("default")>>)]>>)

\* the except json.JSONDecodeError branch: three meals for each of the days
default_meals(days, start_date, drawn) ==
    [n \in 1..(3 * days) |->
        default_meal((n - 1) \div 3, meal_types[((n - 1) % 3) + 1], start_date, uuid4(drawn + n))]

\* _parse_meal_plan_text(meal_plan_text, days); start_date is datetime.now() and
\* drawn the number of uuid4 values the process drew before the call.  The ValueError of
\* line 238 is no JSONDecodeError and leaves the function, as does the error of
\* a decoded element that is no dict.
_parse_meal_plan_text(meal_plan_text, days, start_date, drawn) ==
    LET json_start == str_find(meal_plan_text, "[")
        json_end == str_rfind(meal_plan_text, "]") + 1
        json_text == str_slice(meal_plan_text, json_start, json_end)
        NoDict(meal) ==
            IF meal.t \in {"str", "list"}
            THEN Raise("AttributeError", "object has no attribute 'get'")
            ELSE Raise("TypeError", "argument is not iterable")
        Validated(meals) ==
            IF ~meals.ok
            THEN Return(JArr(default_meals(days, start_date, drawn)))
            ELSE IF \E n \in 1..Len(meals.val.v) : meals.val.v[n].t # "dict"
            THEN NoDict(meals.val.v[CHOOSE n \in 1..Len(meals.val.v) :
                                       /\ meals.val.v[n].t # "dict"
                                       /\ \A o \in 1..(n - 1) : meals.val.v[o].t = "dict"])
            ELSE Return(JArr([n \in 1..Len(meals.val.v) |->
                                validated_meal(meals.val.v[n], start_date, uuid4(drawn + n))]))
    IN  IF json_start = -1 \/ json_end = 0
        THEN Raise("ValueError", "Could not find JSON array in OpenAI response")
        ELSE Validated(json_loads(json_text))

\* _create_meal_plan_prompt: the prompt is text for the model, whose reply the
\* endpoint chooses; what the caller sees of it is the KeyError of a profile
\* without goal_type
_create_meal_plan_prompt(dietary_profile, days) ==
    IF HasItem(dietary_profile, "goal_type")
    THEN Return(JStr("Create a " \o ToString(days) \o "-day meal plan"))
    ELSE Raise("KeyError", "goal_type")

\* _generate_meals_with_openai(dietary_profile, days) with the API key api_key
_generate_meals_with_openai(api_key, dietary_profile, days, api, start_date, drawn) ==
    LET prompt == _create_meal_plan_prompt(dietary_profile, days)
    IN  IF api_key = ""
        THEN Raise("ValueError", "OPENAI_API_KEY environment variable is not set")
        ELSE IF prompt.raised THEN prompt
        ELSE IF api.failed THEN Raise("HTTPError", "the request failed")
        ELSE IF api.status_code # 200 THEN Raise("ValueError", "OpenAI API error: " \o api.content)
        ELSE _parse_meal_plan_text(api.content, days, start_date, drawn)

\* the element of a set of one element: {F(x) : x \in {value}} holds F of the
\* value, computed once
Only(S) == CHOOSE y \in S : TRUE

\* the profile row of the store as the dict the service hands on
ProfileDict(row) ==
    JObj(<<[k |-> "id", v |-> JStr(row.id)],
           [k |-> "user_id", v |-> JStr(row.user_id)],
           [k |-> "goal_type", v |-> JStr(row.goal_type)]>>)

\* lines 321-323 on the rows create_meals returned: meal.get("ingredients", [])
\* of each meal, which extend takes the elements of; ok is FALSE where extend
\* raises (a value that cannot be iterated) or split does (an ingredient that is
\* no str)
created_ingredients(created_meals) ==
    LET Of(meal) == Get(meal, "ingredients", JArr(<<>>))
        Listed[n \in 0..Len(created_meals)] ==
            IF n = 0 THEN <<>>
            ELSE Listed[n - 1] \o (IF Of(created_meals[n]).t \in {"list", "dict", "str"}
                                   THEN Elements(Of(created_meals[n])) ELSE <<>>)
        Checked(all) ==
            [ok |-> /\ \A n \in 1..Len(created_meals) :
                           Of(created_meals[n]).t \in {"list", "dict", "str"}
                    /\ \A i \in 1..Len(all) : all[i].t = "str",
             meals |-> <<[ingredients |-> [i \in 1..Len(all) |->
                                              IF all[i].t = "str" THEN all[i].v ELSE ""]]>>]
    IN  Checked(Listed[Len(created_meals)])

\* the calls of generate_meal_plan, in the order of its body
service_steps ==
    <<"get_dietary_profile", "_generate_meals_with_openai", "create_meal_plan", "create_meals",
      "_generate_shopping_list", "create_shopping_list", "create_shopping_list_items">>

\* lines 66-71: the meals with the id of the plan, as they are handed to
\* create_meals; drawn ids were drawn before the parser drew those of the meals
meals_data(meals, drawn) ==
    [n \in 1..Len(meals) |->
        SetItem(meals[n], "meal_plan_id", JStr(uuid4(drawn + Len(meals) + 1)))]

\* the body of generate_meal_plan (lines 47-95), the shopping list built when
\* listing holds: the outcome, the store after it, the number of ids drawn and
\* the calls made, in order.  The values of the calls are computed once each:
\* dietary_profile, meals, the ingredients of the created meals and the
\* shopping list of them, each only where the body reaches its call.
generate_meal_plan_steps(store, api_key, user_id, dietary_profile_id, days, listing, api, now, drawn, failAt) ==
    LET Done(outcome, written, ids, steps) ==
            [outcome |-> outcome, db |-> written, drawn |-> ids, steps |-> steps]
        Steps(dietary_profile, meals, listed, shopping_list) ==
            LET meal_plan == [id |-> uuid4(drawn + Len(meals.value.v) + 1),
                              user_id |-> user_id,
                              dietary_profile_id |-> dietary_profile_id,
                              start_date |-> isoformat(now),
                              end_date |-> isoformat(AddDays(now, days))]
                created_shopping_list == [id |-> uuid4(drawn + Len(meals.value.v) + 2),
                                          meal_plan_id |-> uuid4(drawn + Len(meals.value.v) + 1)]
                ids == Len(meals.value.v) + 1
            IN  IF dietary_profile.raised
                THEN Done(dietary_profile, store, 0, SubSeq(service_steps, 1, 1))
                ELSE IF meals.raised
                THEN Done(meals, store, 0, SubSeq(service_steps, 1, 2))
                ELSE IF failAt = 1
                THEN Done(Raise("ValueError", "Failed to create meal plan"), store, ids - 1,
                          SubSeq(service_steps, 1, 3))
                ELSE IF failAt = 2 \/ meals.value.v = <<>>
                THEN Done(Raise("ValueError", "Failed to create meals"),
                          [store EXCEPT !.meal_plans = Append(@, meal_plan)], ids,
                          SubSeq(service_steps, 1, 4))
                ELSE IF ~listing
                THEN Done(Return([meal_plan_id |-> meal_plan.id]),
                          [store EXCEPT !.meal_plans = Append(@, meal_plan),
                                        !.meals = @ \o meals_data(meals.value.v, drawn)],
                          ids, SubSeq(service_steps, 1, 4))
                ELSE IF ~listed.ok
                THEN Done(Raise("TypeError", "the ingredients are no list of str"),
                          [store EXCEPT !.meal_plans = Append(@, meal_plan),
                                        !.meals = @ \o meals_data(meals.value.v, drawn)],
                          ids, SubSeq(service_steps, 1, 5))
                ELSE IF failAt = 3
                THEN Done(Raise("ValueError", "Failed to create shopping list"),
                          [store EXCEPT !.meal_plans = Append(@, meal_plan),
                                        !.meals = @ \o meals_data(meals.value.v, drawn)],
                          ids, SubSeq(service_steps, 1, 6))
                ELSE IF failAt = 4 \/ shopping_list = <<>>
                THEN Done(Raise("ValueError", "Failed to create shopping list items"),
                          [store EXCEPT !.meal_plans = Append(@, meal_plan),
                                        !.meals = @ \o meals_data(meals.value.v, drawn),
                                        !.shopping_lists = Append(@, created_shopping_list)],
                          ids + 1, SubSeq(service_steps, 1, 7))
                ELSE Done(Return([meal_plan_id |-> meal_plan.id,
                                  shopping_list_id |-> created_shopping_list.id]),
                          [store EXCEPT
                              !.meal_plans = Append(@, meal_plan),
                              !.meals = @ \o meals_data(meals.value.v, drawn),
                              !.shopping_lists = Append(@, created_shopping_list),
                              !.shopping_list_items =
                                  @ \o [e \in 1..Len(shopping_list) |->
                                           [shopping_list_id |-> created_shopping_list.id]
                                               @@ shopping_list[e]]],
                          ids + 1, SubSeq(service_steps, 1, 7))
    IN  Only({Only({Only({Only({Steps(dietary_profile, meals, listed, shopping_list) :
            shopping_list \in {IF listed.ok THEN _generate_shopping_list(listed.meals)
                               ELSE <<>>}}) :
            listed \in {IF ~meals.raised /\ listing
                        THEN created_ingredients(meals_data(meals.value.v, drawn))
                        ELSE [ok |-> FALSE, meals |-> <<>>]}}) :
            meals \in {IF dietary_profile.raised THEN dietary_profile
                       ELSE _generate_meals_with_openai(
                                api_key, ProfileDict(dietary_profile.value), days, api, now,
                                drawn)}}) :
            dietary_profile \in {get_dietary_profile(store, dietary_profile_id, user_id)}})

\* mutant: the shopping list is built and written whether it was asked for or not
Mut_generate_meal_plan_always_lists(store, api_key, user_id, dietary_profile_id, days, include_shopping_list, api, now, drawn, failAt) ==
    generate_meal_plan_steps(store, api_key, user_id, dietary_profile_id, days, TRUE, api, now,
                             drawn, failAt)

\* MealPlanService.generate_meal_plan (lines 31-100) on the store.  now is
\* datetime.now(), the date of it; the ids of the plan and of the shopping list
\* are the store's; failAt is the insert, counted from 1, whose response holds no
\* data (0: none), and so does the response to the insert of no row.  The except
\* clause prints and raises again.
MealPlanService_generate_meal_plan(store, api_key, user_id, dietary_profile_id, days, include_shopping_list, api, now, drawn, failAt) ==
    generate_meal_plan_steps(store, api_key, user_id, dietary_profile_id, days,
                             include_shopping_list, api, now, drawn, failAt)

-----------------------------------------------------------------------------
(* The helper calls: inputs and actions.                                   *)

MaxMeals == 3

\* meals handed to _generate_shopping_list
ShoppingMeals == {
    [name |-> "Porridge", ingredients |-> <<"1 cup oats", "2 cups of Milk", "3 eggs">>],
    [name |-> "Overnight oats", ingredients |-> <<"2 cups Oats, rolled", "1/2 tsp salt", "milk">>],
    [name |-> "Roast", ingredients |-> <<"1 lb chicken breast", "2 cloves garlic", "Salt", "black pepper">>],
    [name |-> "Leftovers", ingredients |-> <<" 1.5 l  water ", "1 cups", "OATS", "">>],
    [name |-> "Fasting", ingredients |-> <<>>],
    [name |-> "Takeaway"] }

\* names handed to _categorize_ingredient
IngredientNames == {
    "", "oats", "Black Pepper", "pepper", "tomato sauce", "peanut butter", "chicken broth",
    "SALMON", "bread", "rice", "canned beans", "soy sauce", "cumin", "almonds", "green tea",
    "ice cream", "frozen peas", "chocolate", "tofu", "3 eggs", "milk", "qwerty" }

\* names handed to _get_estimated_nutrition_data
FoodNames == {
    "grilled chicken breast", "spinach salad", "brown rice", "banana", "greek yogurt",
    "almonds", "olive oil", "unknown food", "", "Chicken Salad", "peanut butter",
    "Rice Milk", "fruit yogurt", "butternut squash", "BEEF", "bread and butter", "tofu" }

MealSeqs(n) == UNION {[1..k -> ShoppingMeals] : k \in 0..n}

CallCategorizeIngredient ==
    /\ lastCall.op = "none"
    /\ \E ingredient_name \in IngredientNames :
        lastCall' = [op |-> "_categorize_ingredient", arg |-> ingredient_name,
                     ret |-> _categorize_ingredient(ingredient_name)]
    /\ UNCHANGED <<OPENAI_API_KEY, use_mock, uuids, db, savedPlans, use_usda_api>>

CallGetEstimatedNutritionData ==
    /\ lastCall.op = "none"
    /\ \E food_name \in FoodNames :
        lastCall' = [op |-> "_get_estimated_nutrition_data", arg |-> food_name,
                     ret |-> _get_estimated_nutrition_data(food_name)]
    /\ UNCHANGED <<OPENAI_API_KEY, use_mock, uuids, db, savedPlans, use_usda_api>>

CallGenerateShoppingList ==
    /\ lastCall.op = "none"
    /\ \E meals \in MealSeqs(MaxMeals) :
        lastCall' = [op |-> "_generate_shopping_list", arg |-> meals,
                     ret |-> _generate_shopping_list(meals)]
    /\ UNCHANGED <<OPENAI_API_KEY, use_mock, uuids, db, savedPlans, use_usda_api>>

NoCall == [op |-> "none", arg |-> "", ret |-> ""]

\* the caller has taken the result; the helpers keep no state between calls
ReturnFromCall ==
    /\ lastCall.op # "none"
    /\ lastCall' = NoCall
    /\ UNCHANGED <<OPENAI_API_KEY, use_mock, uuids, db, savedPlans, use_usda_api>>

\* no row in any table
StoreEmpty ==
    db = [meal_plans |-> <<>>, days |-> <<>>, meals |-> <<>>,
          shopping_lists |-> <<>>, shopping_list_items |-> <<>>,
          dietary_profiles |-> <<>>]

InitHelpers ==
    /\ lastCall = NoCall
    /\ OPENAI_API_KEY = ""
    /\ use_mock = TRUE
    /\ uuids = 0
    /\ StoreEmpty
    /\ savedPlans = <<>>
    /\ use_usda_api = FALSE

NextHelpers ==
    \/ ReturnFromCall
    \/ CallCategorizeIngredient
    \/ CallGetEstimatedNutritionData
    \/ CallGenerateShoppingList

SpecHelpers == InitHelpers /\ [][NextHelpers]_vars

-----------------------------------------------------------------------------
(* Plan generation: inputs and actions.                                    *)

MaxDays == 3
MaxUuids == 1

\* texts the model replies with
ReplyTexts == {
    "{\"days\": [{\"day_number\": 1, \"date\": \"2024-02-28\", \"meals\": [{\"name\": \"Oatmeal\", \"meal_type\": \"breakfast\", \"calories\": 300, \"protein_grams\": 10, \"carbs_grams\": 50, \"fat_grams\": 5, \"ingredients\": [\"1 cup oats\"]}], \"total_calories\": 300, \"total_protein_grams\": 10, \"total_carbs_grams\": 50, \"total_fat_grams\": 5}]}",
    "Here is your plan:\n{\"days\": [{\"day_number\": 1, \"date\": \"2024-02-28\", \"meals\": [{\"name\": \"Eggs\", \"calories\": 200, \"protein_grams\": 12}, {\"name\": \"Soup\", \"calories\": 500}], \"total_calories\": 2000, \"total_protein_grams\": 12, \"total_carbs_grams\": 0, \"total_fat_grams\": 0}, {\"day_number\": 2, \"date\": \"2024-02-29\", \"meals\": [], \"total_calories\": 0}]}\nEnjoy!",
    "Sorry, I cannot help with that.",
    "{\"days\": [{\"day_number\": 1, \"meals\": [",
    "{days: 3}",
    "{\"plan\": \"none\"}",
    "Here you go: [{\"name\": \"Oatmeal\", \"meal_type\": \"lunch\", \"calories\": 300, \"ingredients\": [\"1 cup oats\", \"milk\"], \"meal_date\": \"2024-03-01\"}, {\"description\": \"no name\", \"meal_type\": \"brunch\"}, {\"name\": null}]",
    "See [1] and [2] for details",
    "[{\"name\": \"Toast\"}, 7]",
    "[]" }

\* what the endpoint may do with a call
ApiOutcomes ==
    {ApiFailure, ApiAnswer(500, "Internal Server Error")}
        \cup {ApiAnswer(200, text) : text \in ReplyTexts}

\* the endpoint is not called
ApiNotCalled == ApiAnswer(0, "")

\* datetime.now(), the date of it
Todays == {<<2024, 2, 28>>, <<2023, 12, 31>>}

StartDates == {JStr("2024-02-28"), JStr("2023-12-31"), JStr("tomorrow")}

DaysChoices == {JNum(d) : d \in 0..MaxDays}

\* the items of a request body: a key may be left out
Optional(key, values) == {<<>>} \cup {<<[k |-> key, v |-> value]>> : value \in values}

MealPlanRequests ==
    {JObj(<<[k |-> "user_id", v |-> JStr("user-1")]>> \o days \o start_date \o end_date) :
        days \in Optional("days", DaysChoices),
        start_date \in Optional("start_date", StartDates),
        end_date \in Optional("end_date", {JStr("2024-03-01")})}

DietaryProfiles ==
    {JObj(<<[k |-> "id", v |-> JStr("profile-1")], [k |-> "goal_type", v |-> JStr("weight_loss")]>>),
     JObj(<<[k |-> "id", v |-> JStr("profile-2")]>>)}

\* POST /meal-plans/generate
PostMealPlansGenerate ==
    /\ lastCall.op = "none"
    /\ uuids < MaxUuids
    /\ \E meal_plan_request \in MealPlanRequests, now \in Todays,
          api \in (IF use_mock THEN {ApiNotCalled} ELSE ApiOutcomes) :
          LET response == router_generate_meal_plan(use_mock, meal_plan_request, now, api,
                                                    uuid4(uuids + 1))
          IN  /\ lastCall' = [op |-> "POST /meal-plans/generate",
                              arg |-> [request |-> meal_plan_request, now |-> now, api |-> api],
                              ret |-> response]
              /\ uuids' = IF response.status_code = 200 THEN uuids + 1 ELSE uuids
    /\ UNCHANGED <<OPENAI_API_KEY, use_mock, db, savedPlans, use_usda_api>>

\* OpenAIService.generate_meal_plan, called by a caller of its own
CallOpenAIServiceGenerateMealPlan ==
    /\ lastCall.op = "none"
    /\ uuids < MaxUuids
    /\ \E days \in DaysChoices, start_date \in StartDates,
          api \in (IF use_mock THEN {ApiNotCalled} ELSE ApiOutcomes) :
          lastCall' = [op |-> "OpenAIService.generate_meal_plan",
                       arg |-> [days |-> days, start_date |-> start_date, api |-> api],
                       ret |-> OpenAIService_generate_meal_plan(
                                   use_mock, JStr("user-1"), JStr("profile-1"), days, start_date,
                                   JStr("2024-03-01"), api)]
    /\ UNCHANGED <<OPENAI_API_KEY, use_mock, uuids, db, savedPlans, use_usda_api>>

\* MealPlanService._generate_meals_with_openai
CallGenerateMealsWithOpenAI ==
    /\ lastCall.op = "none"
    /\ uuids < MaxUuids
    /\ \E dietary_profile \in DietaryProfiles, days \in 0..MaxDays, now \in Todays,
          api \in (IF OPENAI_API_KEY = "" THEN {ApiNotCalled} ELSE ApiOutcomes) :
          LET meals == _generate_meals_with_openai(OPENAI_API_KEY, dietary_profile, days, api,
                                                   now, uuids)
          IN  /\ lastCall' = [op |-> "MealPlanService._generate_meals_with_openai",
                              arg |-> [dietary_profile |-> dietary_profile, days |-> days,
                                       now |-> now, api |-> api],
                              ret |-> meals]
              /\ uuids' = IF meals.raised THEN uuids ELSE uuids + Len(meals.value.v)
    /\ UNCHANGED <<OPENAI_API_KEY, use_mock, db, savedPlans, use_usda_api>>

\* OpenAIService._extract_json_from_text, called by a caller of its own: json.loads
\* raises on a text that does not decode
CallExtractJsonFromText ==
    /\ lastCall.op = "none"
    /\ uuids < MaxUuids
    /\ \E text \in ReplyTexts :
          LET Outcome(json) == IF json.ok THEN Return(json.val)
                               ELSE Raise("JSONDecodeError", "Expecting value")
          IN  lastCall' = [op |-> "OpenAIService._extract_json_from_text",
                           arg |-> [text |-> text],
                           ret |-> Outcome(_extract_json_from_text(text))]
    /\ UNCHANGED <<OPENAI_API_KEY, use_mock, uuids, db, savedPlans, use_usda_api>>

\* the objects the replies decode to
ReplyObjects ==
    {_extract_json_from_text(text).val :
        text \in {t \in ReplyTexts : /\ _extract_json_from_text(t).ok
                                      /\ _extract_json_from_text(t).val.t = "dict"}}

\* OpenAIService._structure_meal_plan, called by a caller of its own with a decoded
\* reply
CallStructureMealPlan ==
    /\ lastCall.op = "none"
    /\ uuids < MaxUuids
    /\ \E meal_plan_json \in ReplyObjects, days \in DaysChoices, start_date \in StartDates :
          lastCall' = [op |-> "OpenAIService._structure_meal_plan",
                       arg |-> [meal_plan_json |-> meal_plan_json, days |-> days,
                                start_date |-> start_date],
                       ret |-> Return(_structure_meal_plan(
                                   meal_plan_json, JStr("user-1"), JStr("profile-1"), days,
                                   start_date, JStr("2024-03-01")))]
    /\ UNCHANGED <<OPENAI_API_KEY, use_mock, uuids, db, savedPlans, use_usda_api>>

\* the bodies of POST /shopping-lists/generate: a key may be left out
ShoppingListRequests ==
    {JObj(meal_plan_id \o user_id) :
        meal_plan_id \in Optional("meal_plan_id", {JStr("plan-1"), JStr("no-such-id")}),
        user_id \in Optional("user_id", {JStr("user-1")})}

\* decoded replies to the shopping-list prompt
ShoppingListReplies == {
    JObj(<<[k |-> "categories", v |-> JArr(<<
        JObj(<<[k |-> "name", v |-> JStr("Produce")],
               [k |-> "items", v |-> JArr(<<
                   JObj(<<[k |-> "item_name", v |-> JStr("Apples")],
                          [k |-> "quantity", v |-> JStr("4")],
                          [k |-> "unit", v |-> JStr("medium")],
                          [k |-> "note", v |-> JStr("Granny Smith preferred")]>>) >>)]>>) >>)]>>),
    JObj(<<[k |-> "items", v |-> JArr(<<>>)]>>) }

\* POST /shopping-lists/generate
PostShoppingListsGenerate ==
    /\ lastCall.op = "none"
    /\ uuids < MaxUuids
    /\ \E request \in ShoppingListRequests,
          api \in (IF use_mock THEN {ApiNotCalled} ELSE ApiOutcomes) :
          LET response == router_generate_shopping_list(use_mock, request, api, uuid4(uuids + 1))
          IN  /\ lastCall' = [op |-> "POST /shopping-lists/generate",
                              arg |-> [request |-> request, api |-> api],
                              ret |-> response]
              /\ uuids' = IF response.status_code = 200 THEN uuids + 1 ELSE uuids
    /\ UNCHANGED <<OPENAI_API_KEY, use_mock, db, savedPlans, use_usda_api>>

\* OpenAIService.generate_shopping_list, called by a caller of its own
CallOpenAIServiceGenerateShoppingList ==
    /\ lastCall.op = "none"
    /\ uuids < MaxUuids
    /\ \E meal_plan_id \in {JStr("plan-1"), JStr("no-such-id")},
          api \in (IF use_mock THEN {ApiNotCalled} ELSE ApiOutcomes) :
          lastCall' = [op |-> "OpenAIService.generate_shopping_list",
                       arg |-> [meal_plan_id |-> meal_plan_id, api |-> api],
                       ret |-> OpenAIService_generate_shopping_list(
                                   use_mock, JStr("user-1"), meal_plan_id, api)]
    /\ UNCHANGED <<OPENAI_API_KEY, use_mock, uuids, db, savedPlans, use_usda_api>>

\* OpenAIService._structure_shopping_list, called by a caller of its own with a
\* decoded reply
CallStructureShoppingList ==
    /\ lastCall.op = "none"
    /\ uuids < MaxUuids
    /\ \E shopping_list_json \in ShoppingListReplies :
          lastCall' = [op |-> "OpenAIService._structure_shopping_list",
                       arg |-> [shopping_list_json |-> shopping_list_json],
                       ret |-> Return(_structure_shopping_list(
                                   shopping_list_json, JStr("user-1"), JStr("plan-1")))]
    /\ UNCHANGED <<OPENAI_API_KEY, use_mock, uuids, db, savedPlans, use_usda_api>>

ApiKeys == {"", "sk-test"}

\* the services as constructed: OPENAI_API_KEY is read from the environment
\* (line 23 of meal_plan_service.py, line 77 of openai_service.py)
InitGenerate ==
    /\ lastCall = NoCall
    /\ uuids = 0
    /\ \E api_key \in ApiKeys, client_ok \in BOOLEAN :
          /\ OPENAI_API_KEY = api_key
          /\ use_mock = OpenAIService_init(api_key, client_ok)
    /\ StoreEmpty
    /\ savedPlans = <<>>
    /\ use_usda_api = FALSE

NextGenerate ==
    \/ ReturnFromCall
    \/ PostMealPlansGenerate
    \/ CallOpenAIServiceGenerateMealPlan
    \/ CallGenerateMealsWithOpenAI
    \/ CallExtractJsonFromText
    \/ CallStructureMealPlan
    \/ PostShoppingListsGenerate
    \/ CallOpenAIServiceGenerateShoppingList
    \/ CallStructureShoppingList

SpecGenerate == InitGenerate /\ [][NextGenerate]_vars

-----------------------------------------------------------------------------
(* The store: inputs and actions.                                          *)

MaxIds == 6

Porridge ==
    [name |-> "Porridge", description |-> "Oats, eggs and salt", meal_type |-> "breakfast",
     calories |-> JNum(300), protein_grams |-> JNum(10), carbs_grams |-> JNull,
     fat_grams |-> JNum(5),
     ingredients |-> <<"1 cup oats", "2 \"large\" eggs, beaten", "salt\\pepper\tmix [a]">>,
     recipe |-> "Boil.", preparation_time_minutes |-> JNum(5), cooking_time_minutes |-> JNull]

Fasting ==
    [name |-> "Fasting", description |-> "", meal_type |-> "lunch",
     calories |-> JNull, protein_grams |-> JNull, carbs_grams |-> JNull, fat_grams |-> JNull,
     ingredients |-> <<>>,
     recipe |-> "", preparation_time_minutes |-> JNull, cooking_time_minutes |-> JNull]

Toast ==
    [name |-> "Toast", description |-> "Bread", meal_type |-> "dinner",
     calories |-> JNum(200), protein_grams |-> JNum(6), carbs_grams |-> JNum(40),
     fat_grams |-> JNum(1),
     ingredients |-> <<"bread">>,
     recipe |-> "Toast the bread.", preparation_time_minutes |-> JNum(1),
     cooking_time_minutes |-> JNum(2)]

DayOf(day_number, date, meals, total_calories) ==
    [day_number |-> day_number, date |-> date, meals |-> meals,
     total_calories |-> total_calories, total_protein_grams |-> JNull,
     total_carbs_grams |-> JNull, total_fat_grams |-> JNull]

\* meal plans handed to save_meal_plan: two days with three meals, one day with a
\* meal without ingredients, and no day at all
MealPlans == {
    [user_id |-> "user-1", dietary_profile_id |-> "profile-1",
     start_date |-> "2024-02-28", end_date |-> "2024-02-29",
     days |-> <<DayOf(1, JStr("2024-02-28"), <<Porridge, Fasting>>, JNum(300)),
                DayOf(2, JStr("2024-02-29"), <<Toast>>, JNull)>>],
    [user_id |-> "user-2", dietary_profile_id |-> "profile-2",
     start_date |-> "2023-12-31", end_date |-> "2023-12-31",
     days |-> <<DayOf(1, JNull, <<Fasting>>, JNull)>>],
    [user_id |-> "user-1", dietary_profile_id |-> "profile-1",
     start_date |-> "2024-03-01", end_date |-> "2024-03-01",
     days |-> <<>>] }

ItemOf(item_name, quantity, category) ==
    [item_name |-> item_name, quantity |-> quantity, unit |-> "", category |-> category,
     note |-> "", is_purchased |-> FALSE]

\* the items of the shopping lists handed to save_shopping_list
ShoppingItems == {
    <<ItemOf("Oats", "1 cup", "Grains & Pasta"), ItemOf("Bread", "", "Bakery")>>,
    <<ItemOf("Milk", "2 cups", "Dairy & Eggs")>> }

\* the ids of the rows of a table
Ids(rows) == {rows[e].id : e \in 1..Len(rows)}

Users == {"user-1", "user-2"}

\* an id no row has
NoSuchId == "no-such-id"

\* SupabaseService.save_meal_plan
SaveMealPlan ==
    /\ lastCall.op = "none"
    /\ \E meal_plan \in MealPlans :
          /\ uuids + Len(MealPlanPosts(meal_plan, uuids)) <= MaxIds
          /\ \E failAt \in 0..Len(MealPlanPosts(meal_plan, uuids)) :
                LET Done(saved) ==
                        /\ lastCall' = [op |-> "SupabaseService.save_meal_plan",
                                        arg |-> [meal_plan |-> meal_plan, failAt |-> failAt],
                                        ret |-> saved.outcome,
                                        requests |-> saved.requests]
                        /\ db' = saved.db
                        /\ uuids' = uuids + saved.drawn
                        /\ savedPlans' = IF saved.outcome.raised THEN savedPlans
                                         ELSE Append(savedPlans, saved.outcome.value)
                IN  Done(save_meal_plan(db, meal_plan, uuids, failAt))
    /\ UNCHANGED <<OPENAI_API_KEY, use_mock, use_usda_api>>

\* SupabaseService.save_shopping_list
SaveShoppingList ==
    /\ lastCall.op = "none"
    /\ \E meal_plan_id \in Ids(db.meal_plans) \cup {NoSuchId}, items \in ShoppingItems :
          LET shopping_list == [user_id |-> "user-1", meal_plan_id |-> meal_plan_id,
                                items |-> items]
              Done(saved) ==
                  /\ lastCall' = [op |-> "SupabaseService.save_shopping_list",
                                  arg |-> [shopping_list |-> shopping_list],
                                  ret |-> saved.outcome,
                                  requests |-> saved.requests]
                  /\ db' = saved.db
                  /\ uuids' = uuids + saved.drawn
          IN  /\ uuids + 1 + Len(items) <= MaxIds
              /\ \E failAt \in 0..(1 + Len(items)) :
                    Done(save_shopping_list(db, shopping_list, uuids, failAt))
    /\ UNCHANGED <<OPENAI_API_KEY, use_mock, savedPlans, use_usda_api>>

\* SupabaseService.get_meal_plan
GetMealPlan ==
    /\ lastCall.op = "none"
    /\ \E meal_plan_id \in Ids(db.meal_plans) \cup {NoSuchId}, answers \in BOOLEAN :
          lastCall' = [op |-> "SupabaseService.get_meal_plan",
                       arg |-> [meal_plan_id |-> meal_plan_id, answers |-> answers],
                       ret |-> SupabaseService_get_meal_plan(db, meal_plan_id, answers)]
    /\ UNCHANGED <<OPENAI_API_KEY, use_mock, uuids, db, savedPlans, use_usda_api>>

\* SupabaseService.get_shopping_list
GetShoppingList ==
    /\ lastCall.op = "none"
    /\ \E shopping_list_id \in Ids(db.shopping_lists) \cup {NoSuchId}, answers \in BOOLEAN :
          lastCall' = [op |-> "SupabaseService.get_shopping_list",
                       arg |-> [shopping_list_id |-> shopping_list_id, answers |-> answers],
                       ret |-> SupabaseService_get_shopping_list(db, shopping_list_id, answers)]
    /\ UNCHANGED <<OPENAI_API_KEY, use_mock, uuids, db, savedPlans, use_usda_api>>

\* SupabaseManager.get_meal_plan
ManagerGetMealPlan ==
    /\ lastCall.op = "none"
    /\ \E meal_plan_id \in Ids(db.meal_plans) \cup {NoSuchId}, user_id \in Users :
          lastCall' = [op |-> "SupabaseManager.get_meal_plan",
                       arg |-> [meal_plan_id |-> meal_plan_id, user_id |-> user_id],
                       ret |-> SupabaseManager_get_meal_plan(db, meal_plan_id, user_id)]
    /\ UNCHANGED <<OPENAI_API_KEY, use_mock, uuids, db, savedPlans, use_usda_api>>

\* SupabaseManager.get_shopping_list
ManagerGetShoppingList ==
    /\ lastCall.op = "none"
    /\ \E shopping_list_id \in Ids(db.shopping_lists) \cup {NoSuchId}, user_id \in Users :
          lastCall' = [op |-> "SupabaseManager.get_shopping_list",
                       arg |-> [shopping_list_id |-> shopping_list_id, user_id |-> user_id],
                       ret |-> SupabaseManager_get_shopping_list(db, shopping_list_id, user_id)]
    /\ UNCHANGED <<OPENAI_API_KEY, use_mock, uuids, db, savedPlans, use_usda_api>>

\* PUT /shopping-lists/{shopping_list_id}/items/{item_id}
PutShoppingListItem ==
    /\ lastCall.op = "none"
    /\ \E shopping_list_id \in Ids(db.shopping_lists) \cup {NoSuchId},
          item_id \in Ids(db.shopping_list_items) \cup {NoSuchId},
          is_purchased \in BOOLEAN :
          LET Done(put) ==
                  /\ lastCall' = [op |-> "PUT /shopping-lists/{shopping_list_id}/items/{item_id}",
                                  arg |-> [shopping_list_id |-> shopping_list_id,
                                           item_id |-> item_id, is_purchased |-> is_purchased],
                                  ret |-> put.response]
                  /\ db' = put.db
          IN  Done(put_shopping_list_item(db, shopping_list_id, item_id, is_purchased))
    /\ UNCHANGED <<OPENAI_API_KEY, use_mock, uuids, savedPlans, use_usda_api>>

\* GET /meal-plans/{meal_plan_id}
GetMealPlansId ==
    /\ lastCall.op = "none"
    /\ \E meal_plan_id \in Ids(db.meal_plans) \cup {NoSuchId}, answers \in BOOLEAN :
          lastCall' = [op |-> "GET /meal-plans/{meal_plan_id}",
                       arg |-> [id |-> meal_plan_id, answers |-> answers],
                       ret |-> router_get_meal_plan(db, meal_plan_id, answers)]
    /\ UNCHANGED <<OPENAI_API_KEY, use_mock, uuids, db, savedPlans, use_usda_api>>

\* GET /meal-plans/{meal_plan_id}/ingredients
GetMealPlansIdIngredients ==
    /\ lastCall.op = "none"
    /\ \E meal_plan_id \in Ids(db.meal_plans) \cup {NoSuchId}, answers \in BOOLEAN :
          lastCall' = [op |-> "GET /meal-plans/{meal_plan_id}/ingredients",
                       arg |-> [id |-> meal_plan_id, answers |-> answers],
                       ret |-> router_get_meal_plan_ingredients(db, meal_plan_id, answers)]
    /\ UNCHANGED <<OPENAI_API_KEY, use_mock, uuids, db, savedPlans, use_usda_api>>

\* GET /shopping-lists/{shopping_list_id}
GetShoppingListsId ==
    /\ lastCall.op = "none"
    /\ \E shopping_list_id \in Ids(db.shopping_lists) \cup {NoSuchId}, answers \in BOOLEAN :
          lastCall' = [op |-> "GET /shopping-lists/{shopping_list_id}",
                       arg |-> [id |-> shopping_list_id, answers |-> answers],
                       ret |-> router_get_shopping_list(db, shopping_list_id, answers)]
    /\ UNCHANGED <<OPENAI_API_KEY, use_mock, uuids, db, savedPlans, use_usda_api>>

InitStore ==
    /\ lastCall = NoCall
    /\ OPENAI_API_KEY = ""
    /\ use_mock = TRUE
    /\ uuids = 0
    /\ StoreEmpty
    /\ savedPlans = <<>>
    /\ use_usda_api = FALSE

NextStore ==
    \/ ReturnFromCall
    \/ SaveMealPlan
    \/ SaveShoppingList
    \/ GetMealPlan
    \/ GetShoppingList
    \/ ManagerGetMealPlan
    \/ ManagerGetShoppingList
    \/ PutShoppingListItem
    \/ GetMealPlansId
    \/ GetMealPlansIdIngredients
    \/ GetShoppingListsId

SpecStore == InitStore /\ [][NextStore]_vars

-----------------------------------------------------------------------------
(* Dietary profiles: inputs and actions.                                   *)

MaxProfiles == 3

\* the profiles handed to create_dietary_profile
ProfileData ==
    {[user_id |-> user_id, goal_type |-> goal_type] :
        user_id \in Users, goal_type \in {"weight_loss", "muscle_gain"}}

\* SupabaseManager.create_dietary_profile
CreateDietaryProfile ==
    /\ lastCall.op = "none"
    /\ Len(db.dietary_profiles) < MaxProfiles
    /\ \E profile_data \in ProfileData, inserted \in BOOLEAN :
          LET Done(created) ==
                  /\ lastCall' = [op |-> "SupabaseManager.create_dietary_profile",
                                  arg |-> [profile_data |-> profile_data, inserted |-> inserted],
                                  ret |-> created.outcome]
                  /\ db' = created.db
                  /\ uuids' = IF created.outcome.raised THEN uuids ELSE uuids + 1
          IN  Done(create_dietary_profile(db, profile_data, uuids, inserted))
    /\ UNCHANGED <<OPENAI_API_KEY, use_mock, savedPlans, use_usda_api>>

\* SupabaseManager.get_dietary_profile
GetDietaryProfile ==
    /\ lastCall.op = "none"
    /\ \E profile_id \in Ids(db.dietary_profiles) \cup {NoSuchId}, user_id \in Users :
          lastCall' = [op |-> "SupabaseManager.get_dietary_profile",
                       arg |-> [profile_id |-> profile_id, user_id |-> user_id],
                       ret |-> get_dietary_profile(db, profile_id, user_id)]
    /\ UNCHANGED <<OPENAI_API_KEY, use_mock, uuids, db, savedPlans, use_usda_api>>

NextProfiles ==
    \/ ReturnFromCall
    \/ CreateDietaryProfile
    \/ GetDietaryProfile

SpecProfiles == InitStore /\ [][NextProfiles]_vars

-----------------------------------------------------------------------------
(* The plan service: inputs and actions.                                   *)

\* the store with the dietary profile of each of two users
InitService ==
    /\ lastCall = NoCall
    /\ OPENAI_API_KEY \in ApiKeys
    /\ use_mock = TRUE
    /\ uuids = 0
    /\ db = [meal_plans |-> <<>>, days |-> <<>>, meals |-> <<>>,
             shopping_lists |-> <<>>, shopping_list_items |-> <<>>,
             dietary_profiles |->
                 <<[id |-> "profile-1", user_id |-> "user-1", goal_type |-> "weight_loss"],
                   [id |-> "profile-2", user_id |-> "user-2", goal_type |-> "muscle_gain"]>>]
    /\ savedPlans = <<>>
    /\ use_usda_api = FALSE

\* MealPlanService.generate_meal_plan, called until a plan is in the store
GenerateMealPlan ==
    /\ lastCall.op = "none"
    /\ uuids < MaxUuids
    /\ db.meal_plans = <<>>
    /\ \E user_id \in Users, dietary_profile_id \in Ids(db.dietary_profiles) \cup {NoSuchId},
          days \in 0..MaxDays, include_shopping_list \in BOOLEAN, now \in Todays,
          api \in (IF OPENAI_API_KEY = "" THEN {ApiNotCalled} ELSE ApiOutcomes),
          failAt \in 0..4 :
          LET Done(generated) ==
                  /\ lastCall' = [op |-> "MealPlanService.generate_meal_plan",
                                  arg |-> [user_id |-> user_id,
                                           dietary_profile_id |-> dietary_profile_id,
                                           days |-> days,
                                           include_shopping_list |-> include_shopping_list,
                                           now |-> now, api |-> api, failAt |-> failAt],
                                  ret |-> generated.outcome,
                                  steps |-> generated.steps]
                  /\ db' = generated.db
                  /\ uuids' = uuids + generated.drawn
          IN  Done(MealPlanService_generate_meal_plan(
                       db, OPENAI_API_KEY, user_id, dietary_profile_id, days,
                       include_shopping_list, api, now, uuids, failAt))
    /\ UNCHANGED <<OPENAI_API_KEY, use_mock, savedPlans, use_usda_api>>

NextService ==
    \/ ReturnFromCall
    \/ GenerateMealPlan

SpecService == InitService /\ [][NextService]_vars

-----------------------------------------------------------------------------
(* Nutrition: inputs and actions.                                          *)

MaxIngredients == 2

\* estimated_data of a call: None, an empty dict, all eight values, some of
\* them, zeros with a null, and a value that is no number
Hints == {
    JNull,
    JObj(<<>>),
    JObj(<<[k |-> "calories", v |-> JNum(350)], [k |-> "protein_grams", v |-> JNum(12)],
           [k |-> "carbs_grams", v |-> JNum(60)], [k |-> "fat_grams", v |-> JNum(8)],
           [k |-> "fiber_grams", v |-> JNum(8)], [k |-> "sugar_grams", v |-> JNum(20)],
           [k |-> "sodium_mg", v |-> JNum(100)], [k |-> "cholesterol_mg", v |-> JNum(0)]>>),
    JObj(<<[k |-> "calories", v |-> JNum(120)], [k |-> "protein_grams", v |-> JNum(4)]>>),
    JObj(<<[k |-> "calories", v |-> JNum(0)], [k |-> "protein_grams", v |-> JNum(0)],
           [k |-> "carbs_grams", v |-> JNum(0)], [k |-> "fat_grams", v |-> JNum(0)],
           [k |-> "fiber_grams", v |-> JNull]>>),
    JObj(<<[k |-> "calories", v |-> JStr("lots")]>>) }

\* names handed to get_nutrition_data
LookupFoodNames == {"chicken breast", "oatmeal", "Spinach Salad", "olive oil", ""}

\* what the lookup does with the search request
SearchOutcomes == {
    ApiFailure,
    ApiAnswer(200, "{\"totalHits\": 0, \"foods\": []}"),
    ApiAnswer(200, "{\"totalHits\": 1, \"foods\": [{\"fdcId\": 171077, \"description\": \"Chicken, broilers\"}]}"),
    ApiAnswer(200, "{\"foods\": [{\"description\": \"no id\"}]}"),
    ApiAnswer(500, "{\"error\": \"Internal Server Error\"}"),
    ApiAnswer(502, "<html>Bad Gateway</html>") }

\* what the lookup does with the detail request
DetailOutcomes == {
    ApiFailure,
    ApiAnswer(200, "{\"fdcId\": 171077, \"foodNutrients\": [{\"nutrient\": {\"id\": 1008, \"name\": \"Energy\", \"unitName\": \"kcal\"}, \"amount\": 165}, {\"nutrient\": {\"id\": 1003, \"name\": \"Protein\", \"unitName\": \"g\"}, \"amount\": 31}, {\"nutrient\": {\"id\": 1093, \"name\": \"Sodium, Na\"}, \"amount\": 74, \"percentDailyValue\": 3}, {\"nutrient\": {\"id\": 1051, \"name\": \"Water\"}, \"amount\": 65}, {\"nutrient\": {\"id\": 1004}, \"amount\": 4}, {\"amount\": 0}]}"),
    ApiAnswer(200, "{\"fdcId\": 171077, \"foodNutrients\": []}"),
    ApiAnswer(200, "{\"foodNutrients\": [{\"nutrient\": {\"id\": 1008, \"name\": \"Energy\"}, \"amount\": null}]}"),
    ApiAnswer(429, "{\"error\": {\"code\": \"OVER_RATE_LIMIT\", \"message\": \"You have exceeded your rate limit.\"}}"),
    ApiAnswer(404, "Not Found") }

\* ingredients of a meal
MealIngredientNames == {"1 lb chicken breast", "2 cups brown rice", "olive oil", "salt"}
IngredientLists == UNION {[1..k -> MealIngredientNames] : k \in 0..MaxIngredients}

\* NutritionService.__init__, lines 34-35
NutritionService_init(usda_api_key) == usda_api_key.t # "NoneType" /\ usda_api_key.v # ""

\* NutritionService.get_nutrition_data; no request is made of the lookup when
\* there is a hint or no key
CallGetNutritionData ==
    /\ lastCall.op = "none"
    /\ \E food_name \in LookupFoodNames, estimated_data \in Hints :
       \E search \in (IF use_usda_api /\ ~Truthy(estimated_data)
                      THEN SearchOutcomes ELSE {ApiNotCalled}),
          detail \in (IF use_usda_api /\ ~Truthy(estimated_data)
                      THEN DetailOutcomes ELSE {ApiNotCalled}) :
          lastCall' = [op |-> "NutritionService.get_nutrition_data",
                       arg |-> [food_name |-> food_name, estimated_data |-> estimated_data,
                                search |-> search, detail |-> detail],
                       ret |-> get_nutrition_data(food_name, JStr("1 cup"), estimated_data,
                                                  use_usda_api, search, detail)]
    /\ UNCHANGED <<OPENAI_API_KEY, use_mock, uuids, db, savedPlans, use_usda_api>>

\* NutritionService.calculate_meal_nutrition, which asks nothing of the lookup
CallCalculateMealNutrition ==
    /\ lastCall.op = "none"
    /\ \E ingredients \in IngredientLists, estimated_data \in Hints :
          lastCall' = [op |-> "NutritionService.calculate_meal_nutrition",
                       arg |-> [ingredients |-> ingredients, estimated_data |-> estimated_data],
                       ret |-> [outcome |-> calculate_meal_nutrition(ingredients, estimated_data),
                                requests |-> 0]]
    /\ UNCHANGED <<OPENAI_API_KEY, use_mock, uuids, db, savedPlans, use_usda_api>>

\* POST /nutrition/calculate with a body the NutritionRequest model takes
PostNutritionCalculate ==
    /\ lastCall.op = "none"
    /\ \E ingredients \in IngredientLists, estimated_data \in Hints :
          LET request == [meal_id |-> "meal-1", ingredients |-> ingredients,
                          estimated_data |-> estimated_data]
          IN  lastCall' = [op |-> "POST /nutrition/calculate", arg |-> request,
                           ret |-> router_calculate_nutrition(request)]
    /\ UNCHANGED <<OPENAI_API_KEY, use_mock, uuids, db, savedPlans, use_usda_api>>

UsdaApiKeys == {JNull, JStr(""), JStr("usda-key")}

InitNutrition ==
    /\ lastCall = NoCall
    /\ OPENAI_API_KEY = ""
    /\ use_mock = TRUE
    /\ uuids = 0
    /\ StoreEmpty
    /\ savedPlans = <<>>
    /\ \E usda_api_key \in UsdaApiKeys : use_usda_api = NutritionService_init(usda_api_key)

NextNutrition ==
    \/ ReturnFromCall
    \/ CallGetNutritionData
    \/ CallCalculateMealNutrition
    \/ PostNutritionCalculate

SpecNutrition == InitNutrition /\ [][NextNutrition]_vars

-----------------------------------------------------------------------------
(* Properties of plan generation.                                          *)

\* the endpoint was reached and answered with status 200
Answered(api) == ~api.failed /\ api.status_code = 200

\* no text between the first open and the last close bracket of text decodes as JSON
Unparseable(text, open, close) ==
    \/ str_find(text, open) = -1
    \/ str_rfind(text, close) = -1
    \/ ~json_loads(str_slice(text, str_find(text, open), str_rfind(text, close) + 1)).ok

\* the placeholder list of the local parser: three meals, breakfast, lunch and
\* dinner, for each of the days
IsPlaceholderMeals(outcome, days) ==
    /\ ~outcome.raised
    /\ outcome.value.t = "list"
    /\ Len(outcome.value.v) = 3 * days
    /\ \A n \in 1..(3 * days) :
           /\ outcome.value.v[n].t = "dict"
           /\ Get(outcome.value.v[n], "meal_type", JNull) = JStr(meal_types[((n - 1) % 3) + 1])

\* the days and the start date POST /meal-plans/generate works with
RequestDays(meal_plan_request) == Get(meal_plan_request, "days", JNum(1)).v
RequestStartDate(meal_plan_request, now) ==
    Get(meal_plan_request, "start_date", JStr(strftime(now))).v

\* C1: plan generation never raises on an unparseable model reply: when no JSON
\* array (local parser) or object (OpenAIService) can be located in the reply, or
\* the located text does not decode, the generator returns a placeholder plan
\* covering exactly the requested number of days, for the local parser three
\* meals per day, breakfast, lunch and dinner.
C1_PlaceholderOnUnparseableReply ==
    /\ ( /\ lastCall.op = "MealPlanService._generate_meals_with_openai"
          /\ OPENAI_API_KEY # ""
          /\ HasItem(lastCall.arg.dietary_profile, "goal_type")
          /\ Answered(lastCall.arg.api)
          /\ Unparseable(lastCall.arg.api.content, "[", "]") )
         => IsPlaceholderMeals(lastCall.ret, lastCall.arg.days)
    /\ ( /\ lastCall.op = "OpenAIService._extract_json_from_text"
          /\ Unparseable(lastCall.arg.text, "{", "}") )
         => ~lastCall.ret.raised

\* C2: when the endpoint is configured and the call fails, by a transport
\* exception or a status other than 200, plan generation returns the placeholder
\* plan for the requested number of days and no error reaches the caller.
C2_PlaceholderOnFailedCall ==
    /\ ( /\ lastCall.op = "MealPlanService._generate_meals_with_openai"
          /\ OPENAI_API_KEY # ""
          /\ HasItem(lastCall.arg.dietary_profile, "goal_type")
          /\ ~Answered(lastCall.arg.api) )
         => IsPlaceholderMeals(lastCall.ret, lastCall.arg.days)

\* plan has exactly d day entries, numbered 1..d in order, the entry numbered n
\* dated s + (n - 1) days and holding at least one meal
CoversDays(plan, d, s) ==
    LET days == Get(plan, "days", JNull)
    IN  /\ days.t = "list"
        /\ Len(days.v) = d
        /\ \A n \in 1..d :
               /\ days.v[n].t = "dict"
               /\ Get(days.v[n], "day_number", JNull) = JNum(n)
               /\ Get(days.v[n], "date", JNull) = JStr(strftime(AddDays(s, n - 1)))
               /\ Get(days.v[n], "meals", JNull).t = "list"
               /\ Len(Get(days.v[n], "meals", JNull).v) >= 1

\* C3: for every request with days = d >= 1 and start date s, the plan
\* generate_meal_plan returns, and so the response of POST /meal-plans/generate,
\* has exactly d day entries with day_number 1..d in order, date = s +
\* (day_number - 1) days and at least one meal each, and the response carries a
\* non-empty id, on the mock path and on the model-reply path alike.
C3_ExactlyRequestedDays ==
    /\ ( /\ lastCall.op = "OpenAIService.generate_meal_plan"
          /\ lastCall.arg.days.v >= 1
          /\ strptime(lastCall.arg.start_date.v).ok
          /\ ~lastCall.ret.raised )
         => CoversDays(lastCall.ret.value, lastCall.arg.days.v,
                       strptime(lastCall.arg.start_date.v).date)
    /\ ( /\ lastCall.op = "POST /meal-plans/generate"
          /\ RequestDays(lastCall.arg.request) >= 1
          /\ strptime(RequestStartDate(lastCall.arg.request, lastCall.arg.now)).ok
          /\ lastCall.ret.status_code = 200 )
         => /\ CoversDays(lastCall.ret.body, RequestDays(lastCall.arg.request),
                          strptime(RequestStartDate(lastCall.arg.request, lastCall.arg.now)).date)
            /\ Get(lastCall.ret.body, "id", JStr("")).t = "str"
            /\ Get(lastCall.ret.body, "id", JStr("")).v # ""
    /\ ( /\ lastCall.op = "OpenAIService._structure_meal_plan"
          /\ lastCall.arg.days.v >= 1
          /\ strptime(lastCall.arg.start_date.v).ok )
         => CoversDays(lastCall.ret.value, lastCall.arg.days.v,
                       strptime(lastCall.arg.start_date.v).date)

\* the four totals of every day of plan are what calculate_day_nutrition gives
\* for the meals of the day
TotalsRecomputed(plan) ==
    LET days == Get(plan, "days", JArr(<<>>))
    IN  \A n \in 1..Len(days.v) :
            \A key \in {"total_calories", "total_protein_grams", "total_carbs_grams",
                         "total_fat_grams"} :
                Get(days.v[n], key, JNull)
                    = Item(calculate_day_nutrition(Get(days.v[n], "meals", JArr(<<>>)).v), key)

\* C4: in every plan the generator returns, each day's total_calories,
\* total_protein_grams, total_carbs_grams and total_fat_grams equal the sum over
\* the day's meals of the meal field, a meal without the field counting as zero,
\* whatever totals the model reply reported.
C4_DayTotalsAreSums ==
    /\ (lastCall.op = "OpenAIService.generate_meal_plan" /\ ~lastCall.ret.raised)
         => TotalsRecomputed(lastCall.ret.value)
    /\ (lastCall.op = "POST /meal-plans/generate" /\ lastCall.ret.status_code = 200)
         => TotalsRecomputed(lastCall.ret.body)
    /\ lastCall.op = "OpenAIService._structure_meal_plan"
         => TotalsRecomputed(lastCall.ret.value)

\* the store holds no row of the table with the id
Unknown(rows, id) == \A e \in 1..Len(rows) : rows[e].id # id

\* a shopping list was returned: a dict whose items are a list
IsShoppingList(value) ==
    /\ value.t = "dict"
    /\ Get(value, "items", JNull).t = "list"

\* C13: model-assisted shopping-list generation never crashes the parent
\* request: with the endpoint failing, by a transport exception or a status other
\* than 200, or answering a text in which no JSON object can be decoded,
\* generate_shopping_list returns a list (an empty one or the locally
\* categorized one) and POST /shopping-lists/generate does not answer with an
\* error.
C13_ShoppingListGenerationNeverCrashes ==
    /\ ( /\ lastCall.op = "OpenAIService.generate_shopping_list"
          /\ ~use_mock
          /\ \/ ~Answered(lastCall.arg.api)
             \/ Unparseable(lastCall.arg.api.content, "{", "}") )
         => /\ ~lastCall.ret.raised
            /\ IsShoppingList(lastCall.ret.value)
    /\ ( /\ lastCall.op = "POST /shopping-lists/generate"
          /\ ~use_mock
          /\ \/ ~Answered(lastCall.arg.api)
             \/ Unparseable(lastCall.arg.api.content, "{", "}") )
         => lastCall.ret.status_code = 200

\* C14: a missing API key is a fatal configuration error of the construction of
\* the generator: the service is not put on mock replies, no request for a plan
\* or a shopping list is answered with one, and no generation call returns one.
C14_MissingCredentialIsFatal ==
    /\ OPENAI_API_KEY = "" => ~use_mock
    /\ ( /\ OPENAI_API_KEY = ""
          /\ lastCall.op \in {"POST /meal-plans/generate", "POST /shopping-lists/generate"} )
         => lastCall.ret.status_code # 200
    /\ ( /\ OPENAI_API_KEY = ""
          /\ lastCall.op \in {"OpenAIService.generate_meal_plan",
                              "OpenAIService.generate_shopping_list",
                              "MealPlanService._generate_meals_with_openai"} )
         => lastCall.ret.raised

\* C15: POST /meal-plans/generate persists what it returns: once it has answered
\* 200 with a plan of id i, GET /meal-plans/i on the store answers 200 with a plan
\* of as many days, and not 404.
C15_GeneratePersistsPlan ==
    LET Holds(got) ==
            /\ got.status_code = 200
            /\ Len(got.body.days) = Len(Get(lastCall.ret.body, "days", JArr(<<>>)).v)
    IN  (lastCall.op = "POST /meal-plans/generate" /\ lastCall.ret.status_code = 200)
            => Holds(router_get_meal_plan(db, Get(lastCall.ret.body, "id", JStr("")).v, TRUE))

\* an item of a flat list: a dict with the six fields of an item
IsFlatItem(item) ==
    /\ item.t = "dict"
    /\ \A key \in {"item_name", "quantity", "unit", "category", "note", "is_purchased"} :
           HasItem(item, key)

\* C16: POST /shopping-lists/generate answers with the saved list: the id of the
\* response is the id of a shopping list of the store, and the items of the
\* response, which are those _structure_shopping_list builds, are a flat sequence
\* of items with item_name, quantity, unit, category, note and is_purchased.
C16_GenerateSavesShoppingList ==
    LET Flat(items) == items.t = "list" /\ \A n \in 1..Len(items.v) : IsFlatItem(items.v[n])
    IN  /\ (lastCall.op = "POST /shopping-lists/generate" /\ lastCall.ret.status_code = 200)
             => /\ Get(lastCall.ret.body, "id", JStr("")).v \in Ids(db.shopping_lists)
                /\ Flat(Get(lastCall.ret.body, "items", JNull))
        /\ lastCall.op = "OpenAIService._structure_shopping_list"
             => Flat(Get(lastCall.ret.value, "items", JNull))

\* C17: POST /shopping-lists/generate for a meal_plan_id the store holds no plan
\* of answers 404 and leaves the shopping lists and their items as they were.
C17_MissingPlanGives404 ==
    [][ ( /\ lastCall'.op = "POST /shopping-lists/generate"
          /\ lastCall.op = "none"
          /\ Unknown(db.meal_plans,
                     Get(lastCall'.arg.request, "meal_plan_id", JStr("test-meal-plan-id")).v) )
        => /\ lastCall'.ret.status_code = 404
           /\ db'.shopping_lists = db.shopping_lists
           /\ db'.shopping_list_items = db.shopping_list_items ]_vars

\* the local parser was handed the reply and decoded the array in it
ParsedReply ==
    /\ lastCall.op = "MealPlanService._generate_meals_with_openai"
    /\ ~lastCall.ret.raised
    /\ Answered(lastCall.arg.api)
    /\ ~Unparseable(lastCall.arg.api.content, "[", "]")

\* the fields of a meal of the parser, and the Python type of each
meal_fields ==
    <<[k |-> "id", t |-> "str"], [k |-> "name", t |-> "str"],
      [k |-> "description", t |-> "str"], [k |-> "meal_date", t |-> "str"],
      [k |-> "meal_type", t |-> "str"], [k |-> "calories", t |-> "int"],
      [k |-> "prep_time", t |-> "int"], [k |-> "ingredients", t |-> "list"],
      [k |-> "instructions", t |-> "list"], [k |-> "tags", t |-> "list"]>>

\* C26: every meal the parser returns from a decoded reply has all the fields of
\* a meal, none of them null: a field the reply left out or gave as null holds
\* its default; the calories are a number and the meal type is one of breakfast,
\* lunch, dinner and snack.
C26_ParsedMealsAreNormalized ==
    LET Normalized(meal) ==
            /\ \A f \in 1..Len(meal_fields) :
                   /\ HasItem(meal, meal_fields[f].k)
                   /\ Item(meal, meal_fields[f].k).t = meal_fields[f].t
            /\ Item(meal, "meal_type").v \in {"breakfast", "lunch", "dinner", "snack"}
    IN  ParsedReply => \A n \in 1..Len(lastCall.ret.value.v) :
                           Normalized(lastCall.ret.value.v[n])

ListedItems(shopping_list) ==
    LET elements == Get(shopping_list, "items", JArr(<<>>)).v
        Inner(element) == IF element.t = "dict" /\ Get(element, "items", JNull).t = "list"
                          THEN {Item(element, "items").v[i] :
                                    i \in 1..Len(Item(element, "items").v)}
                          ELSE {element}
    IN  UNION {Inner(elements[n]) : n \in 1..Len(elements)}

\* C24: every item of a shopping list carries is_purchased = false when it is
\* built, by the local builder, by the model-assisted builder and by the mock
\* builder alike.
C24_NewItemsAreNotPurchased ==
    /\ lastCall.op = "_generate_shopping_list"
         => \A e \in 1..Len(lastCall.ret) : lastCall.ret[e].is_purchased = FALSE
    /\ ( /\ lastCall.op \in {"OpenAIService.generate_shopping_list",
                             "OpenAIService._structure_shopping_list"}
         /\ ~lastCall.ret.raised )
         => \A item \in ListedItems(lastCall.ret.value) :
                /\ item.t = "dict"
                /\ Get(item, "is_purchased", JNull) = JBool(FALSE)

\* C23: a plan a generate operation creates for d days ends d - 1 days after it
\* starts: the plan row MealPlanService.generate_meal_plan writes, and the plan
\* POST /meal-plans/generate answers with.
C23_EndDateIsStartPlusDaysMinusOne ==
    /\ lastCall.op = "MealPlanService.generate_meal_plan"
         => \A e \in 1..Len(db.meal_plans) :
                /\ db.meal_plans[e].start_date = isoformat(lastCall.arg.now)
                /\ db.meal_plans[e].end_date
                       = isoformat(AddDays(lastCall.arg.now, lastCall.arg.days - 1))
    /\ (lastCall.op = "POST /meal-plans/generate" /\ lastCall.ret.status_code = 200)
         => LET start_date == strptime(Item(lastCall.ret.body, "start_date").v)
                days == RequestDays(lastCall.arg.request)
            IN  /\ start_date.ok
                /\ Item(lastCall.ret.body, "end_date")
                       = JStr(strftime(AddDays(start_date.date, days - 1)))

\* C28: MealPlanService.generate_meal_plan fetches the profile, calls the model,
\* inserts the plan and inserts the meals, in this order, and only when
\* include_shopping_list is true builds the shopping list, inserts it and inserts
\* its items; a step that fails ends the call with its exception and no later
\* step runs, so that no row is written unless the profile was found and the
\* generation returned meals; the result holds shopping_list_id exactly when
\* include_shopping_list is true.
C28_ServiceStepsInOrder ==
    LET order == <<"get_dietary_profile", "_generate_meals_with_openai", "create_meal_plan",
                   "create_meals", "_generate_shopping_list", "create_shopping_list",
                   "create_shopping_list_items">>
        Holds(arg, ret, steps) ==
            /\ Len(steps) \in 1..7
            /\ \A n \in 1..Len(steps) : steps[n] = order[n]
            /\ ~arg.include_shopping_list => Len(steps) <= 4
            /\ ~ret.raised => /\ Len(steps) = IF arg.include_shopping_list THEN 7 ELSE 4
                              /\ ret.value.meal_plan_id \in Ids(db.meal_plans)
                              /\ ("shopping_list_id" \in DOMAIN ret.value)
                                     <=> arg.include_shopping_list
                              /\ arg.include_shopping_list
                                     => ret.value.shopping_list_id \in Ids(db.shopping_lists)
            /\ (ret.raised /\ Len(steps) <= 2)
                   => /\ db.meal_plans = <<>>
                      /\ db.meals = <<>>
            /\ db.meal_plans # <<>>
                   => \E p \in 1..Len(db.dietary_profiles) :
                          /\ db.dietary_profiles[p].id = arg.dietary_profile_id
                          /\ db.dietary_profiles[p].user_id = arg.user_id
            /\ db.meals # <<>> => db.meal_plans # <<>>
            /\ (~arg.include_shopping_list \/ Len(steps) < 6)
                   => db.shopping_lists = <<>>
            /\ (ret.raised \/ ~arg.include_shopping_list) => db.shopping_list_items = <<>>
            /\ (ret.raised /\ arg.failAt \in 1..4 /\ Len(steps) > 2)
                   => Len(steps) <= IF arg.failAt <= 2 THEN arg.failAt + 2 ELSE arg.failAt + 3
    IN  lastCall.op = "MealPlanService.generate_meal_plan"
            => Holds(lastCall.arg, lastCall.ret, lastCall.steps)

\* C28 witness: a plan was generated with its shopping list, in seven steps, and
\* the items of the list are in the store.
C28_Witness ==
    /\ lastCall.op = "MealPlanService.generate_meal_plan"
    /\ ~lastCall.ret.raised
    /\ lastCall.arg.include_shopping_list
    /\ Len(lastCall.steps) = 7
    /\ db.shopping_list_items # <<>>

-----------------------------------------------------------------------------
(* Properties of the store.                                                *)

\* C5: loading a plan or a shopping list by an id for which the store holds no
\* row returns the not-found value None and raises no exception, for every load
\* operation of the persistence layer, after any sequence of earlier saves; the
\* store answers the requests of the load.
C5_UnknownIdGivesNone ==
    /\ (lastCall.op = "SupabaseService.get_meal_plan"
           /\ lastCall.arg.answers
           /\ Unknown(db.meal_plans, lastCall.arg.meal_plan_id))
         => lastCall.ret = Return(JNull)
    /\ (lastCall.op = "SupabaseService.get_shopping_list"
           /\ lastCall.arg.answers
           /\ Unknown(db.shopping_lists, lastCall.arg.shopping_list_id))
         => lastCall.ret = Return(JNull)
    /\ (lastCall.op = "SupabaseManager.get_meal_plan"
           /\ Unknown(db.meal_plans, lastCall.arg.meal_plan_id))
         => lastCall.ret = Return(JNull)
    /\ (lastCall.op = "SupabaseManager.get_shopping_list"
           /\ Unknown(db.shopping_lists, lastCall.arg.shopping_list_id))
         => lastCall.ret = Return(JNull)

\* the columns of loaded other than the nested ones are those of the model
SameFields(loaded, model, nested) ==
    \A column \in DOMAIN model \ nested :
        column \in DOMAIN loaded /\ loaded[column] = model[column]

\* the loaded meal is the meal saved, its ingredients the list they were
SameMeal(loaded, meal) ==
    /\ SameFields(loaded, meal, {"ingredients"})
    /\ loaded.ingredients = JArr([i \in 1..Len(meal.ingredients) |-> JStr(meal.ingredients[i])])

SameDay(loaded, day) ==
    /\ SameFields(loaded, day, {"meals"})
    /\ Len(loaded.meals) = Len(day.meals)
    /\ \A m \in 1..Len(day.meals) : SameMeal(loaded.meals[m], day.meals[m])

SamePlan(loaded, meal_plan) ==
    /\ SameFields(loaded, meal_plan, {"days"})
    /\ Len(loaded.days) = Len(meal_plan.days)
    /\ \A n \in 1..Len(meal_plan.days) : SameDay(loaded.days[n], meal_plan.days[n])

PutArg == lastCall'.arg

\* the rows of shopping_list_items the request of a PUT step names: the id is the
\* item's and the list is the item's list
PutTargets ==
    {e \in 1..Len(db.shopping_list_items) :
        /\ db.shopping_list_items[e].id = PutArg.item_id
        /\ db.shopping_list_items[e].shopping_list_id = PutArg.shopping_list_id}

\* C7: updating a shopping-list item is scoped by both item id and list id: a
\* request naming an item that does not belong to the given list changes no item
\* of the store and is answered 404; a request naming an item of the list sets
\* the is_purchased flag of that item, changes nothing else, and returns the item.
C7_UpdateScopedByItemAndList ==
    [][lastCall'.op = "PUT /shopping-lists/{shopping_list_id}/items/{item_id}" =>
         IF PutTargets = {}
         THEN /\ db' = db
              /\ lastCall'.ret.status_code = 404
         ELSE /\ lastCall'.ret.status_code = 200
              /\ \A tbl \in DOMAIN db \ {"shopping_list_items"} : db'[tbl] = db[tbl]
              /\ Len(db'.shopping_list_items) = Len(db.shopping_list_items)
              /\ \A e \in 1..Len(db.shopping_list_items) :
                    IF e \in PutTargets
                    THEN /\ db'.shopping_list_items[e]
                              = [db.shopping_list_items[e] EXCEPT !.is_purchased = PutArg.is_purchased]
                         /\ lastCall'.ret.body = db'.shopping_list_items[e]
                    ELSE db'.shopping_list_items[e] = db.shopping_list_items[e]
      ]_vars

\* C7 witness: a request named an item of one list under another list of the
\* store and asked for a flag the item does not have; it was answered 404 and the
\* item has kept its flag.
C7_Witness ==
    /\ lastCall.op = "PUT /shopping-lists/{shopping_list_id}/items/{item_id}"
    /\ lastCall.ret.status_code = 404
    /\ lastCall.arg.shopping_list_id \in Ids(db.shopping_lists)
    /\ \E e \in 1..Len(db.shopping_list_items) :
          /\ db.shopping_list_items[e].id = lastCall.arg.item_id
          /\ db.shopping_list_items[e].shopping_list_id # lastCall.arg.shopping_list_id
          /\ db.shopping_list_items[e].is_purchased # lastCall.arg.is_purchased

\* the GET routes that load a plan or a shopping list by id
GetRoutes == {"GET /meal-plans/{meal_plan_id}", "GET /meal-plans/{meal_plan_id}/ingredients",
              "GET /shopping-lists/{shopping_list_id}"}

\* what the load of the GET request call gives on the store
LoadOf(call) ==
    IF call.op = "GET /shopping-lists/{shopping_list_id}"
    THEN SupabaseService_get_shopping_list(db, call.arg.id, call.arg.answers)
    ELSE SupabaseService_get_meal_plan(db, call.arg.id, call.arg.answers)

\* C18: GET /meal-plans/{id}, GET /meal-plans/{id}/ingredients and GET
\* /shopping-lists/{id} answer 404 exactly when the load returns not found, the
\* message of the 404 holds the requested id, and a load that fails is answered
\* 500; the 404 is never turned into a 500.
C18_NotFoundStays404 ==
    LET Holds(load) ==
            /\ (lastCall.ret.status_code = 404) <=> (load = Return(JNull))
            /\ lastCall.ret.status_code = 404
                 => str_contains(lastCall.ret.detail, "ID " \o lastCall.arg.id \o " not found")
            /\ load.raised => lastCall.ret.status_code = 500
    IN  lastCall.op \in GetRoutes => Holds(LoadOf(lastCall))

\* C18 witness: the ingredients of a plan the store does not hold were asked for
\* while it holds other plans, and the answer is 404 naming the id.
C18_Witness ==
    /\ lastCall.op = "GET /meal-plans/{meal_plan_id}/ingredients"
    /\ db.meal_plans # <<>>
    /\ Unknown(db.meal_plans, lastCall.arg.id)
    /\ lastCall.arg.answers
    /\ lastCall.ret.status_code = 404
    /\ lastCall.ret.detail = "Meal plan with ID no-such-id not found"

\* the rows of the profiles with the id and the user of the call
Owned(call) ==
    SelectSeq(db.dietary_profiles,
              LAMBDA row : row.id = call.arg.profile_id /\ row.user_id = call.arg.user_id)

\* C20: get_dietary_profile(profile_id, user_id) returns a profile only when a
\* stored profile has both that id and that user id, and returns that profile;
\* otherwise its outcome is the one it has on a store without any profile, so that
\* a profile of another user gives what an id that does not exist gives.
C20_ProfileOwnership ==
    lastCall.op = "SupabaseManager.get_dietary_profile"
        => /\ Owned(lastCall) # <<>>
                => /\ ~lastCall.ret.raised
                   /\ lastCall.ret.value = Owned(lastCall)[1]
           /\ Owned(lastCall) = <<>>
                => /\ lastCall.ret.raised
                   /\ lastCall.ret = get_dietary_profile(
                                         [db EXCEPT !.dietary_profiles = <<>>],
                                         lastCall.arg.profile_id, lastCall.arg.user_id)

\* C20 witness: the profile asked for is stored and belongs to another user, and
\* the call has raised.
C20_Witness ==
    /\ lastCall.op = "SupabaseManager.get_dietary_profile"
    /\ \E e \in 1..Len(db.dietary_profiles) :
          /\ db.dietary_profiles[e].id = lastCall.arg.profile_id
          /\ db.dietary_profiles[e].user_id # lastCall.arg.user_id
    /\ lastCall.ret.raised
    /\ lastCall.ret.msg = "Dietary profile not found for ID: " \o lastCall.arg.profile_id

\* the tables and the rows a save of the days is to write, in order: each day,
\* then its meals
RECURSIVE ExpectedDayOrder(_)
ExpectedDayOrder(days) ==
    IF days = <<>> THEN <<>>
    ELSE <<<<"days", ToString(Head(days).day_number)>>>>
         \o [m \in 1..Len(Head(days).meals) |-> <<"meals", Head(days).meals[m].name>>]
         \o ExpectedDayOrder(Tail(days))

\* the number of meals of the days
RECURSIVE MealCount(_)
MealCount(days) ==
    IF days = <<>> THEN 0 ELSE Len(Head(days).meals) + MealCount(Tail(days))

\* the table and the row of a request, as ExpectedDayOrder names them
Written(request) ==
    IF request.tbl = "days" THEN <<"days", ToString(request.row.day_number)>>
    ELSE IF request.tbl = "meals" THEN <<"meals", request.row.name>>
    ELSE <<request.tbl, "">>

\* C21: a successful save_meal_plan sends its create requests parent before
\* child, one row a request: the plan row first, then for each day in plan order
\* the row of the day followed by one request for each of its meals; 1 + D + M
\* requests for a plan of D days and M meals.
C21_ParentBeforeChild ==
    LET Holds(requests, days) ==
            /\ Len(requests) = 1 + Len(days) + MealCount(days)
            /\ requests[1].tbl = "meal_plans"
            /\ \A j \in 1..Len(requests) : requests[j].method = "POST"
            /\ [j \in 1..(Len(requests) - 1) |-> Written(requests[j + 1])]
                   = ExpectedDayOrder(days)
    IN  (lastCall.op = "SupabaseService.save_meal_plan" /\ ~lastCall.ret.raised)
            => Holds(lastCall.requests, lastCall.arg.meal_plan.days)

\* C21 witness: a plan of two days, the first with two meals, was saved with six
\* requests, the second day's row sent after the meals of the first.
C21_Witness ==
    /\ lastCall.op = "SupabaseService.save_meal_plan"
    /\ ~lastCall.ret.raised
    /\ Len(lastCall.arg.meal_plan.days) = 2
    /\ Len(lastCall.requests) = 6
    /\ lastCall.requests[4].tbl = "meals"
    /\ lastCall.requests[5].tbl = "days"

\* the row is in its table of the store
Stored(tbl, row) == \E e \in 1..Len(db[tbl]) : db[tbl][e] = row

\* C22: save_meal_plan stops at the first create request the store answers with
\* a status other than 201: it raises an exception naming the step, the failed
\* request is the last it sends, it sends nothing but POST requests, and the
\* rows of the requests before the failed one are in the store.
C22_StopsAtFirstFailure ==
    LET Holds(requests, failAt) ==
            /\ lastCall.ret.raised
            /\ str_contains(lastCall.ret.msg,
                            "Failed to save " \o step_name(requests[failAt].tbl))
            /\ Len(requests) = failAt
            /\ \A j \in 1..Len(requests) : requests[j].method = "POST"
            /\ \A j \in 1..(failAt - 1) :
                   requests[j].status_code = 201 /\ Stored(requests[j].tbl, requests[j].row)
            /\ ~Stored(requests[failAt].tbl, requests[failAt].row)
    IN  (lastCall.op = "SupabaseService.save_meal_plan" /\ lastCall.arg.failAt > 0)
            => Holds(lastCall.requests, lastCall.arg.failAt)

\* C22 witness: the request for the first day failed, and the plan row of the
\* save is in the store without any day.
C22_Witness ==
    /\ lastCall.op = "SupabaseService.save_meal_plan"
    /\ lastCall.arg.failAt = 2
    /\ lastCall.ret.raised
    /\ Stored("meal_plans", lastCall.requests[1].row)
    /\ \A e \in 1..Len(db.days) : db.days[e].meal_plan_id # lastCall.requests[1].row.id

\* C29: after a successful save_meal_plan every day row of the save holds the id
\* of the plan row of the save and every meal row the id of the row of its day,
\* the day row sent last before it; after a successful save_shopping_list every
\* item row holds the id of the list row of the save; and in the store no child
\* row has a parent other than the one of its save: the rows of a table have
\* different ids.
C29_ChildRowsOwnedByTheirSave ==
    LET DayBefore(requests, j) ==
            requests[CHOOSE d \in 1..j : /\ requests[d].tbl = "days"
                                         /\ \A o \in (d + 1)..j : requests[o].tbl # "days"]
        PlanHolds(requests) ==
            \A j \in 2..Len(requests) :
                /\ requests[j].tbl = "days"
                     => requests[j].row.meal_plan_id = requests[1].row.id
                /\ requests[j].tbl = "meals"
                     => requests[j].row.day_id = DayBefore(requests, j).row.id
        ListHolds(requests) ==
            \A j \in 2..Len(requests) :
                requests[j].row.shopping_list_id = requests[1].row.id
        Unique(rows) ==
            \A a, b \in 1..Len(rows) : rows[a].id = rows[b].id => a = b
    IN  /\ (lastCall.op = "SupabaseService.save_meal_plan" /\ ~lastCall.ret.raised)
             => PlanHolds(lastCall.requests)
        /\ (lastCall.op = "SupabaseService.save_shopping_list" /\ ~lastCall.ret.raised)
             => ListHolds(lastCall.requests)
        /\ \A tbl \in DOMAIN db : Unique(db[tbl])

\* C29 witness: a shopping list of two items was saved after another save had
\* written rows, and both item rows hold the id of the list row.
C29_Witness ==
    /\ lastCall.op = "SupabaseService.save_shopping_list"
    /\ ~lastCall.ret.raised
    /\ Len(lastCall.requests) = 3
    /\ db.meal_plans # <<>>
    /\ lastCall.requests[1].row.id # "uuid-1"
    /\ lastCall.requests[3].row.shopping_list_id = lastCall.requests[1].row.id

\* the ingredients of the meals, and of the meals of the days, of a plan as it
\* was handed to the save, one after the other
RECURSIVE IngredientsOfMeals(_)
IngredientsOfMeals(meals) ==
    IF meals = <<>> THEN <<>>
    ELSE [i \in 1..Len(Head(meals).ingredients) |-> JStr(Head(meals).ingredients[i])]
         \o IngredientsOfMeals(Tail(meals))

RECURSIVE IngredientsOfDays(_)
IngredientsOfDays(days) ==
    IF days = <<>> THEN <<>>
    ELSE IngredientsOfMeals(Head(days).meals) \o IngredientsOfDays(Tail(days))

\* the number of ingredients of the meals of the days
RECURSIVE IngredientCount(_)
IngredientCount(days) ==
    IF days = <<>> THEN 0
    ELSE LET meals == Head(days).meals
             Count[m \in 0..Len(meals)] ==
                 IF m = 0 THEN 0 ELSE Count[m - 1] + Len(meals[m].ingredients)
         IN  Count[Len(meals)] + IngredientCount(Tail(days))

-----------------------------------------------------------------------------
(* Properties of the nutrition estimator.                                  *)

\* a hint: a dict that is not empty and holds numbers, or null for a value
\* that may be left out
IsHint(estimated_data) ==
    /\ estimated_data.t = "dict"
    /\ estimated_data.v # <<>>
    /\ \A f \in 1..4 :
          /\ Get(estimated_data, macro_fields[f], JNum(0)).t = "int"
          /\ Get(estimated_data, optional_fields[f], JNull).t \in {"int", "NoneType"}

SearchFailed(search) == search.failed \/ search.status_code # 200

\* the search was answered with no match
NoMatch(search) ==
    /\ ~SearchFailed(search)
    /\ json_loads(search.content).ok
    /\ json_loads(search.content).val.t = "dict"
    /\ ~Truthy(Get(json_loads(search.content).val, "foods", JNull))

\* the search gave a match and the detail request failed or was answered with
\* an error status
DetailFailed(search, detail) ==
    /\ ~SearchFailed(search)
    /\ ~NoMatch(search)
    /\ detail.failed \/ detail.status_code # 200

\* C12: when the lookup is configured and there is no hint, a search or detail
\* request that fails, or a search with no match, makes get_nutrition_data
\* return exactly the keyword estimate of the food name, and nothing is raised.
C12_LookupFailureGivesEstimate ==
    (/\ lastCall.op = "NutritionService.get_nutrition_data"
     /\ use_usda_api
     /\ ~Truthy(lastCall.arg.estimated_data)
     /\ \/ SearchFailed(lastCall.arg.search)
        \/ NoMatch(lastCall.arg.search)
        \/ DetailFailed(lastCall.arg.search, lastCall.arg.detail)) =>
        /\ ~lastCall.ret.outcome.raised
        /\ lastCall.ret.outcome.value = _get_estimated_nutrition_data(lastCall.arg.food_name)

\* C19: POST /nutrition/calculate answers 200 with the hint's values when there
\* is a hint and with the sums of the keyword estimates of the ingredients when
\* there is none, and 500 only when that computation fails.
C19_NutritionCalculateAnswers ==
    lastCall.op = "POST /nutrition/calculate" =>
        LET hint == lastCall.arg.estimated_data
            ingredients == lastCall.arg.ingredients
            Sum(field) == EstimatesTotal(ingredients, field)
        IN  IF Truthy(hint)
            THEN IF IsHint(hint)
                 THEN /\ lastCall.ret.status_code = 200
                      /\ lastCall.ret.body = NutritionDataOfHint(hint).value
                 ELSE lastCall.ret.status_code = 500
            ELSE /\ lastCall.ret.status_code = 200
                 /\ lastCall.ret.body = NutritionData(Sum("calories"), Sum("protein_grams"),
                                                      Sum("carbs_grams"), Sum("fat_grams"))

-----------------------------------------------------------------------------
(* Properties of the helpers.                                              *)

\* C8: local shopping-list deduplication: the output of _generate_shopping_list
\* holds exactly one item per distinct lower-cased canonical item name of the
\* input ingredients, and that item carries the quantity and the category of the
\* first occurrence of the name; later occurrences are dropped, not merged.
C8_LocalDedupFirstWins ==
    lastCall.op = "_generate_shopping_list" =>
        LET ings == AllIngredients(lastCall.arg)
            out == lastCall.ret
            parsed == [i \in 1..Len(ings) |-> ParseIngredient(ings[i])] \o <<>>
            key == [i \in 1..Len(ings) |-> str_lower(parsed[i].name)] \o <<>>
            outKey == [a \in 1..Len(out) |-> str_lower(out[a].ingredient_name)] \o <<>>
            First(k) == CHOOSE i \in 1..Len(ings) :
                            key[i] = k /\ \A j \in 1..(i - 1) : key[j] # k
        IN  /\ \A a, b \in 1..Len(out) : a # b => outKey[a] # outKey[b]
            /\ {outKey[a] : a \in 1..Len(out)} = {key[i] : i \in 1..Len(ings)}
            /\ \A a \in 1..Len(out) :
                   /\ out[a].quantity = parsed[First(outKey[a])].quantity
                   /\ out[a].category = _categorize_ingredient(parsed[First(outKey[a])].name)

\* C8 witness: a list was built from ingredients two of which share a canonical
\* name and differ in quantity, and the output is shorter than the input.
C8_Witness ==
    /\ lastCall.op = "_generate_shopping_list"
    /\ LET ings == AllIngredients(lastCall.arg)
           parsed == [i \in 1..Len(ings) |-> ParseIngredient(ings[i])] \o <<>>
       IN  /\ Len(lastCall.ret) < Len(ings)
           /\ \E i, j \in 1..Len(ings) :
                  /\ i < j
                  /\ parsed[i].name = parsed[j].name
                  /\ parsed[i].quantity # parsed[j].quantity

\* C9: _categorize_ingredient is total: for every input string, the empty one
\* included, it returns one of the 12 named categories or "Other", never an
\* empty value.
C9_CategorizeTotal ==
    lastCall.op = "_categorize_ingredient" =>
        lastCall.ret \in {"Produce", "Meat & Seafood", "Dairy & Eggs", "Bakery",
                          "Grains & Pasta", "Canned Goods", "Condiments & Sauces",
                          "Spices & Herbs", "Nuts & Seeds", "Beverages", "Frozen Foods",
                          "Snacks", "Other"}

\* C9 witness: the empty string was categorized, as "Other".
C9_Witness ==
    /\ lastCall.op = "_categorize_ingredient"
    /\ lastCall.arg = ""
    /\ lastCall.ret = "Other"

\* the categories in the order of the table
category_order ==
    <<"Produce", "Meat & Seafood", "Dairy & Eggs", "Bakery", "Grains & Pasta",
      "Canned Goods", "Condiments & Sauces", "Spices & Herbs", "Nuts & Seeds",
      "Beverages", "Frozen Foods", "Snacks">>

\* C25: when keywords of several categories occur in the lower-cased name,
\* _categorize_ingredient returns the category that comes first in the order of
\* the table: "pepper" and "tomato sauce" are Produce, "peanut butter" is Dairy &
\* Eggs.
C25_FirstCategoryInTableOrderWins ==
    LET Position(name) == CHOOSE c \in 1..Len(category_order) : category_order[c] = name
        Matches(name, text) ==
            \E c \in 1..Len(categories) :
                /\ categories[c].name = name
                /\ \E k \in 1..Len(categories[c].keywords) :
                       str_contains(text, categories[c].keywords[k])
        Holds(text, ret) ==
            /\ (\E c \in 1..Len(category_order) : Matches(category_order[c], text))
                   => /\ ret \in {category_order[c] : c \in 1..Len(category_order)}
                      /\ Matches(ret, text)
                      /\ \A c \in 1..(Position(ret) - 1) : ~Matches(category_order[c], text)
            /\ text = "pepper" => ret = "Produce"
            /\ text = "tomato sauce" => ret = "Produce"
            /\ text = "peanut butter" => ret = "Dairy & Eggs"
    IN  lastCall.op = "_categorize_ingredient"
            => Holds(str_lower(lastCall.arg), lastCall.ret)

\* C25 witness: "peanut butter", with the keywords butter of Dairy & Eggs and nut
\* and peanut of Nuts & Seeds in it, was categorized.
C25_Witness ==
    /\ lastCall.op = "_categorize_ingredient"
    /\ lastCall.arg = "peanut butter"
    /\ str_contains(lastCall.arg, "butter")
    /\ str_contains(lastCall.arg, "peanut")
    /\ lastCall.ret = "Dairy & Eggs"

\* C10: the keyword estimate of a food name is the fixed profile of the first
\* bucket, in the order protein-rich, vegetable, starch, fruit, dairy, nuts/seeds,
\* fat/oil, one of whose keywords is a substring of the lower-cased name, and the
\* default 200/10/20/10 when no bucket matches.
C10_FirstBucketProfile ==
    lastCall.op = "_get_estimated_nutrition_data" =>
        LET name == str_lower(lastCall.arg)
            buckets == <<
                [words |-> protein_words, profile |-> <<250, 25, 0, 15>>],
                [words |-> vegetable_words, profile |-> <<50, 2, 10, 0>>],
                [words |-> carb_words, profile |-> <<200, 5, 40, 1>>],
                [words |-> fruit_words, profile |-> <<100, 1, 25, 0>>],
                [words |-> dairy_words, profile |-> <<150, 10, 12, 8>>],
                [words |-> nut_words, profile |-> <<180, 6, 6, 16>>],
                [words |-> fat_words, profile |-> <<120, 0, 0, 14>>] >>
            hits == {b \in 1..Len(buckets) :
                        \E k \in 1..Len(buckets[b].words) :
                            str_contains(name, buckets[b].words[k])}
            expected == IF hits = {} THEN <<200, 10, 20, 10>>
                        ELSE buckets[CHOOSE b \in hits : \A o \in hits : b <= o].profile
            ret == lastCall.ret
        IN  <<ret.calories, ret.protein_grams, ret.carbs_grams, ret.fat_grams>> = expected

\* C10 witness: a name holding keywords of two buckets (protein-rich and
\* vegetable) was estimated with the protein-rich profile.
C10_Witness ==
    /\ lastCall.op = "_get_estimated_nutrition_data"
    /\ lastCall.arg = "Chicken Salad"
    /\ lastCall.ret.calories = 250

====
